---- MODULE Spec2Model ----
(***************************************************************************)
(* Model of the tag parser of abcxyz/tagrep (package tags).                *)
(*                                                                         *)
(* A Go string is modelled as a sequence of one-character strings, so that *)
(* the regular expression, strings.ToUpper, strings.TrimSpace and the two  *)
(* serializers are computed character by character.                        *)
(* An error value is nil (the empty sequence) or its message, a sequence   *)
(* whose fixed fragments are whole strings and whose interpolated values   *)
(* are spelled character by character.                                     *)
(***************************************************************************)
EXTENDS Integers, Sequences, FiniteSets, TLC

VARIABLES
  text,     \* the argument v of ParseTags
  cfg,      \* the Config of the TagParser
  pc,       \* the position of the ParseTags call
  ts,       \* the local ts of ParseTags: the groups parseTags returned
  todo,     \* the keys of ts the range loop has not visited yet
  tagStrs,  \* the local tagStrs of ParseTags, the argument ts of format
  r,        \* the string ParseTags returns
  err,      \* the error ParseTags returns
  warned,   \* the keys the duplicate warning was logged for
  outs,     \* the returns of the first and of the latest call of format
  other,    \* the locals of a second ParseTags call on the same TagParser
  cmd,      \* the ParseCommand, its MockPlatform and what Process returned
  plat      \* a GitHub or GitLab platform: its config, its calls, its return

vars ==
  <<text, cfg, pc, ts, todo, tagStrs, r, err, warned, outs, other, cmd,
    plat>>

\* Largest number of lines of an input text.
MaxLines == 3

----------------------------------------------------------------------------
(* Characters and strings                                                  *)

LowerAlpha ==
  <<"a","b","c","d","e","f","g","h","i","j","k","l","m",
    "n","o","p","q","r","s","t","u","v","w","x","y","z">>

UpperAlpha ==
  <<"A","B","C","D","E","F","G","H","I","J","K","L","M",
    "N","O","P","Q","R","S","T","U","V","W","X","Y","Z">>

DigitChars == <<"0","1","2","3","4","5","6","7","8","9">>

\* The characters of the class [A-Za-z0-9_], in ascending byte order.
KeyCharOrder == DigitChars \o UpperAlpha \o <<"_">> \o LowerAlpha

Range(s) == { s[i] : i \in 1..Len(s) }

KeyChars == Range(KeyCharOrder)

\* Byte order of the characters a key can hold (sort.Strings compares bytes).
Code(c) == CHOOSE i \in 1..Len(KeyCharOrder) : KeyCharOrder[i] = c

ToUpperChar(c) ==
  IF \E i \in 1..26 : LowerAlpha[i] = c
  THEN UpperAlpha[CHOOSE i \in 1..26 : LowerAlpha[i] = c]
  ELSE c

ToLowerChar(c) ==
  IF \E i \in 1..26 : UpperAlpha[i] = c
  THEN LowerAlpha[CHOOSE i \in 1..26 : UpperAlpha[i] = c]
  ELSE c

\* strings.ToUpper
RECURSIVE ToUpper(_)
ToUpper(s) ==
  IF s = <<>> THEN <<>> ELSE <<ToUpperChar(Head(s))>> \o ToUpper(Tail(s))

\* strings.ToLower
RECURSIVE ToLower(_)
ToLower(s) ==
  IF s = <<>> THEN <<>> ELSE <<ToLowerChar(Head(s))>> \o ToLower(Tail(s))

\* The white space strings.TrimSpace removes (ASCII part).
WhiteSpace == {" ", "\t", "\n", "\r", "\f"}

RECURSIVE TrimLeft(_)
TrimLeft(s) ==
  IF s # <<>> /\ Head(s) \in WhiteSpace THEN TrimLeft(Tail(s)) ELSE s

RECURSIVE TrimRight(_)
TrimRight(s) ==
  IF s # <<>> /\ s[Len(s)] \in WhiteSpace
  THEN TrimRight(SubSeq(s, 1, Len(s) - 1))
  ELSE s

\* strings.TrimSpace
TrimSpace(s) == TrimRight(TrimLeft(s))

\* slices.Contains
Contains(list, x) == \E i \in 1..Len(list) : list[i] = x

\* strings.Join
RECURSIVE Join(_, _)
Join(ss, sep) ==
  IF ss = <<>> THEN <<>>
  ELSE IF Len(ss) = 1 THEN ss[1]
  ELSE ss[1] \o sep \o Join(Tail(ss), sep)

\* Byte-wise lexicographic order on keys, the order of sort.Strings.
RECURSIVE StrLess(_, _)
StrLess(a, b) ==
  IF b = <<>> THEN FALSE
  ELSE IF a = <<>> THEN TRUE
  ELSE IF Head(a) = Head(b) THEN StrLess(Tail(a), Tail(b))
  ELSE Code(Head(a)) < Code(Head(b))

\* The keys in descending order.
RECURSIVE SortStrings_Descending(_)
SortStrings_Descending(S) ==
  IF S = {} THEN <<>>
  ELSE LET m == CHOOSE x \in S : \A y \in S \ {x} : StrLess(y, x)
       IN <<m>> \o SortStrings_Descending(S \ {m})

\* sort.Strings(maps.Keys(m)): the keys in ascending order.
RECURSIVE SortStrings(_)
SortStrings(S) ==
  IF S = {} THEN <<>>
  ELSE LET m == CHOOSE x \in S : \A y \in S \ {x} : StrLess(x, y)
       IN <<m>> \o SortStrings(S \ {m})

----------------------------------------------------------------------------
(* tagPattern and parseTags                                                *)

\* The (?m)^ assertion: position i is the start of the text or follows "\n".
LineStart(v, i) == i = 1 \/ v[i - 1] = "\n"

\* The first position >= i whose character is not in the set cs.
RECURSIVE SkipWhile(_, _, _)
SkipWhile(v, i, cs) ==
  IF i <= Len(v) /\ v[i] \in cs THEN SkipWhile(v, i + 1, cs) ELSE i

\* The first position >= i whose character is in the set cs.
RECURSIVE SkipUntil(_, _, _)
SkipUntil(v, i, cs) ==
  IF i <= Len(v) /\ v[i] \notin cs THEN SkipUntil(v, i + 1, cs) ELSE i

\* End of the key token [A-Za-z0-9_]* that starts at position i.
KeyEnd(v, i) == SkipWhile(v, i, KeyChars)

\* The pattern without the ^ assertion.
tagPatternAnywhere(v, i) ==
  LET j == KeyEnd(v, i) IN j <= Len(v) /\ v[j] = "="

\* The pattern with the key token [A-Za-z0-9_]+.
tagPattern_NonEmptyKey(v, i) ==
  /\ LineStart(v, i)
  /\ LET j == KeyEnd(v, i) IN j > i /\ j <= Len(v) /\ v[j] = "="

\* tagPattern matches at position i.
tagPattern(v, i) ==
  /\ LineStart(v, i)
  /\ LET j == KeyEnd(v, i) IN j <= Len(v) /\ v[j] = "="

\* The submatches when the value class is [^\n]*.
Submatch_ToLineFeed(v, i) ==
  LET j == KeyEnd(v, i)
      e == SkipUntil(v, j + 1, {"\n"})
  IN [start |-> i,
      key   |-> SubSeq(v, i, j - 1),
      value |-> SubSeq(v, j + 1, e - 1),
      end   |-> e]

\* The submatches of the match at position i: key m[1], value m[2], and the
\* position after the match.
Submatch(v, i) ==
  LET j == KeyEnd(v, i)
      e == SkipUntil(v, j + 1, {"\n", "\r"})
  IN [start |-> i,
      key   |-> SubSeq(v, i, j - 1),
      value |-> SubSeq(v, j + 1, e - 1),
      end   |-> e]

\* tagPattern.FindAllStringSubmatch(v, -1): leftmost non-overlapping matches.
RECURSIVE FindAllStringSubmatch(_, _)
FindAllStringSubmatch(v, i) ==
  IF i > Len(v) THEN <<>>
  ELSE IF tagPattern(v, i)
       THEN LET m == Submatch(v, i)
            IN <<m>> \o FindAllStringSubmatch(v, m.end)
       ELSE FindAllStringSubmatch(v, i + 1)

\* resp[m[1]] = append(resp[m[1]], m[2]) over the matches ms.
RECURSIVE GroupMatches(_, _)
GroupMatches(ms, resp) ==
  IF ms = <<>> THEN resp
  ELSE LET m   == Head(ms)
           old == IF m.key \in DOMAIN resp THEN resp[m.key] ELSE <<>>
       IN GroupMatches(Tail(ms),
            [k \in DOMAIN resp \cup {m.key} |->
               IF k = m.key THEN Append(old, m.value) ELSE resp[k]])

EmptyMap == [k \in {} |-> <<>>]

parseTags(v) == GroupMatches(FindAllStringSubmatch(v, 1), EmptyMap)

----------------------------------------------------------------------------
(* parseBoolValue and processTagValues                                     *)

Chars_yes   == <<"y","e","s">>
Chars_y     == <<"y">>
Chars_no    == <<"n","o">>
Chars_n     == <<"n">>
Chars_true  == <<"t","r","u","e">>
Chars_false == <<"f","a","l","s","e">>

\* strconv.Quote for the characters of the model.
QuoteChar(c) ==
  IF c = "\"" THEN <<"\\", "\"">>
  ELSE IF c = "\\" THEN <<"\\", "\\">>
  ELSE IF c = "\t" THEN <<"\\", "t">>
  ELSE <<c>>

RECURSIVE QuoteChars(_)
QuoteChars(s) ==
  IF s = <<>> THEN <<>> ELSE QuoteChar(Head(s)) \o QuoteChars(Tail(s))

strconvQuote(s) == <<"\"">> \o QuoteChars(s) \o <<"\"">>

\* strconv.ParseBool
strconvParseBool(s) ==
  IF s \in {<<"1">>, <<"t">>, <<"T">>, <<"T","R","U","E">>, Chars_true,
            <<"T","r","u","e">>}
  THEN [b |-> TRUE, err |-> <<>>]
  ELSE IF s \in {<<"0">>, <<"f">>, <<"F">>, <<"F","A","L","S","E">>,
                 Chars_false, <<"F","a","l","s","e">>}
  THEN [b |-> FALSE, err |-> <<>>]
  ELSE [b |-> FALSE,
        err |-> <<"strconv.ParseBool: parsing ">> \o strconvQuote(s)
                  \o <<": invalid syntax">>]

\* parseBoolValue without strings.TrimSpace.
parseBoolValue_NoTrim(v) ==
  LET vtl == ToLower(v) IN
  IF vtl \in {Chars_yes, Chars_y} THEN [b |-> TRUE, err |-> <<>>]
  ELSE IF vtl \in {Chars_no, Chars_n} THEN [b |-> FALSE, err |-> <<>>]
  ELSE strconvParseBool(vtl)

\* parseBoolValue
parseBoolValue(v) ==
  LET vtl == ToLower(TrimSpace(v)) IN
  IF vtl \in {Chars_yes, Chars_y} THEN [b |-> TRUE, err |-> <<>>]
  ELSE IF vtl \in {Chars_no, Chars_n} THEN [b |-> FALSE, err |-> <<>>]
  ELSE LET p == strconvParseBool(vtl) IN
       IF p.err # <<>>
       THEN [b |-> FALSE,
             err |-> <<"failed to parse ">> \o vtl \o <<" as bool: ">> \o p.err]
       ELSE p

StringValue(s) == [kind |-> "string", s |-> s]
BoolValue(b)   == [kind |-> "bool", b |-> b]
SliceValue(a)  == [kind |-> "slice", a |-> a]
NilValue       == [kind |-> "nil"]

\* processTagValues that looks at BoolTags first.
processTagValues_BoolFirst(c, key, vs) ==
  LET last == vs[Len(vs)]
      warn == Len(vs) > 1
  IN IF Contains(c.BoolTags, key)
     THEN LET p == parseBoolValue(last) IN
          IF p.err # <<>>
          THEN [val |-> NilValue,
                err |-> <<"failed to parse bool: ">> \o p.err,
                warn |-> warn]
          ELSE [val |-> BoolValue(p.b), err |-> <<>>, warn |-> warn]
     ELSE IF Contains(c.ArrayTags, key)
     THEN [val |-> SliceValue(vs), err |-> <<>>, warn |-> FALSE]
     ELSE [val |-> StringValue(last), err |-> <<>>, warn |-> warn]

\* processTagValues(key, vs): the typed value, the error and whether the
\* duplicate-key warning is logged.
processTagValues(c, key, vs) ==
  IF Contains(c.ArrayTags, key)
  THEN [val |-> SliceValue(vs), err |-> <<>>, warn |-> FALSE]
  ELSE LET last == vs[Len(vs)]
           warn == Len(vs) > 1
       IN IF Contains(c.StringTags, key)
          THEN [val |-> StringValue(last), err |-> <<>>, warn |-> warn]
          ELSE IF Contains(c.BoolTags, key)
          THEN LET p == parseBoolValue(last) IN
               IF p.err # <<>>
               THEN [val |-> NilValue,
                     err |-> <<"failed to parse bool: ">> \o p.err,
                     warn |-> warn]
               ELSE [val |-> BoolValue(p.b), err |-> <<>>, warn |-> warn]
          ELSE [val |-> StringValue(last), err |-> <<>>, warn |-> warn]

----------------------------------------------------------------------------
(* stringifyRaw, escapeCommas and format                                   *)

\* escapeCommas that leaves the commas as they are.
escapeCommas_None(v) == v

\* strings.ReplaceAll(v, ",", `\\,`)
RECURSIVE escapeCommas(_)
escapeCommas(v) ==
  IF v = <<>> THEN <<>>
  ELSE (IF Head(v) = "," THEN <<"\\", ",">> ELSE <<Head(v)>>)
         \o escapeCommas(Tail(v))

RECURSIVE EscapeAll(_)
EscapeAll(a) ==
  IF a = <<>> THEN <<>> ELSE <<escapeCommas(Head(a))>> \o EscapeAll(Tail(a))

\* strconv.FormatBool
FormatBool(b) == IF b THEN Chars_true ELSE Chars_false

\* stringifyRaw that puts a string between quotes.
stringifyRaw_Quoted(v) ==
  IF v.kind = "string" THEN [s |-> <<"\"">> \o v.s \o <<"\"">>, err |-> <<>>]
  ELSE IF v.kind = "bool" THEN [s |-> FormatBool(v.b), err |-> <<>>]
  ELSE [s |-> Join(EscapeAll(v.a), <<",">>), err |-> <<>>]

\* stringifyRaw
stringifyRaw(v) ==
  IF v.kind = "string" THEN [s |-> v.s, err |-> <<>>]
  ELSE IF v.kind = "bool" THEN [s |-> FormatBool(v.b), err |-> <<>>]
  ELSE IF v.kind = "slice"
  THEN [s |-> Join(EscapeAll(v.a), <<",">>), err |-> <<>>]
  ELSE [s |-> <<>>, err |-> <<"unsupported type for tag strigify ">>]

\* The loop of the raw branch of format over the sorted keys.
RECURSIVE formatRawLines(_, _)
formatRawLines(m, keys) ==
  IF keys = <<>> THEN [r |-> <<>>, err |-> <<>>]
  ELSE LET k    == Head(keys)
           v    == stringifyRaw(m[k])
           rest == formatRawLines(m, Tail(keys))
           e    == IF v.err = <<>> THEN <<>>
                   ELSE <<"failed to parse ">> \o k \o <<" as array: ">>
                          \o v.err \o <<"\n">>
       IN [r   |-> k \o <<"=">> \o v.s \o <<"\n">> \o rest.r,
           err |-> e \o rest.err]

\* The escaping encoding/json applies inside a JSON string.
jsonEscapeChar(c) ==
  IF c = "\"" THEN <<"\\", "\"">>
  ELSE IF c = "\\" THEN <<"\\", "\\">>
  ELSE IF c = "\n" THEN <<"\\", "n">>
  ELSE IF c = "\r" THEN <<"\\", "r">>
  ELSE IF c = "\t" THEN <<"\\", "t">>
  ELSE IF c = "<" THEN <<"\\", "u", "0", "0", "3", "c">>
  ELSE IF c = ">" THEN <<"\\", "u", "0", "0", "3", "e">>
  ELSE IF c = "&" THEN <<"\\", "u", "0", "0", "2", "6">>
  ELSE <<c>>

RECURSIVE jsonEscape(_)
jsonEscape(s) ==
  IF s = <<>> THEN <<>> ELSE jsonEscapeChar(Head(s)) \o jsonEscape(Tail(s))

jsonString(s) == <<"\"">> \o jsonEscape(s) \o <<"\"">>

\* The new line and indentation json.MarshalIndent inserts at depth d.
RECURSIVE Indent(_)
Indent(d) == IF d = 0 THEN <<>> ELSE <<" ", " ">> \o Indent(d - 1)

NewLine(pretty, d) == IF pretty THEN <<"\n">> \o Indent(d) ELSE <<>>

RECURSIVE jsonElems(_, _)
jsonElems(a, pretty) ==
  IF a = <<>> THEN <<>>
  ELSE NewLine(pretty, 2) \o jsonString(Head(a))
         \o (IF Len(a) > 1 THEN <<",">> ELSE <<>>)
         \o jsonElems(Tail(a), pretty)

\* jsonValue that escapes the commas of array elements as the raw format
\* does.
jsonValue_Escaped(v, pretty) ==
  IF v.kind = "string" THEN jsonString(v.s)
  ELSE IF v.kind = "bool" THEN FormatBool(v.b)
  ELSE IF v.kind = "slice"
  THEN IF v.a = <<>> THEN <<"[", "]">>
       ELSE <<"[">> \o jsonElems(EscapeAll(v.a), pretty)
              \o NewLine(pretty, 1) \o <<"]">>
  ELSE <<"n", "u", "l", "l">>

jsonValue(v, pretty) ==
  IF v.kind = "string" THEN jsonString(v.s)
  ELSE IF v.kind = "bool" THEN FormatBool(v.b)
  ELSE IF v.kind = "slice"
  THEN IF v.a = <<>> THEN <<"[", "]">>
       ELSE <<"[">> \o jsonElems(v.a, pretty) \o NewLine(pretty, 1) \o <<"]">>
  ELSE <<"n", "u", "l", "l">>

RECURSIVE jsonMembers(_, _, _)
jsonMembers(m, keys, pretty) ==
  IF keys = <<>> THEN <<>>
  ELSE NewLine(pretty, 1) \o jsonString(Head(keys)) \o <<":">>
         \o (IF pretty THEN <<" ">> ELSE <<>>)
         \o jsonValue(m[Head(keys)], pretty)
         \o (IF Len(keys) > 1 THEN <<",">> ELSE <<>>)
         \o jsonMembers(m, Tail(keys), pretty)

\* json.Marshal / json.MarshalIndent of a map[string]any: members in
\* ascending key order.
jsonMarshal(m, pretty) ==
  IF DOMAIN m = {} THEN <<"{", "}">>
  ELSE <<"{">> \o jsonMembers(m, SortStrings(DOMAIN m), pretty)
         \o NewLine(pretty, 0) \o <<"}">>

FormatUnspecified == ""
FormatJSON == "json"
FormatRaw == "raw"

\* format whose raw branch puts an empty line first when PrettyPrint is
\* set.
format_PrettyRaw(c, m) ==
  IF c.Format = FormatRaw
  THEN LET f == formatRawLines(m, SortStrings(DOMAIN m))
       IN [r   |-> IF c.PrettyPrint
                   THEN <<"\n">> \o f.r
                   ELSE f.r,
           err |-> f.err]
  ELSE IF c.Format = FormatJSON
  THEN [r |-> jsonMarshal(m, c.PrettyPrint), err |-> <<>>]
  ELSE IF c.Format = FormatUnspecified
  THEN [r |-> <<>>, err |-> <<"unknown error formatting tags">>]
  ELSE [r |-> <<>>,
        err |-> <<"format '", c.Format, "' is invalid">>]

format(c, m) ==
  IF c.Format = FormatRaw THEN formatRawLines(m, SortStrings(DOMAIN m))
  ELSE IF c.Format = FormatJSON
  THEN [r |-> jsonMarshal(m, c.PrettyPrint), err |-> <<>>]
  ELSE IF c.Format = FormatUnspecified
  THEN [r |-> <<>>, err |-> <<"unknown error formatting tags">>]
  ELSE [r |-> <<>>,
        err |-> <<"format '", c.Format, "' is invalid">>]

----------------------------------------------------------------------------
(* ParseTags                                                               *)

\* The union without BoolTags.
targetTags_NoBool(c) == c.ArrayTags \o c.StringTags

\* sets.Union(ArrayTags, StringTags, BoolTags)
targetTags(c) == c.ArrayTags \o c.StringTags \o c.BoolTags

\* A loop without the `continue`.
Selected_All(c, k) == TRUE

\* A selection that ignores the letter case of the configured names.
Selected_FoldCase(c, k) ==
  \/ c.OutputAll
  \/ \E i \in 1..Len(targetTags(c)) : ToUpper(targetTags(c)[i]) = ToUpper(k)

\* The negation of the `continue` condition: the found key k takes part in
\* the output.
Selected(c, k) == c.OutputAll \/ Contains(targetTags(c), ToUpper(k))

\* An error return that keeps the output of the keys typed so far.
ParseTagsFail_Partial(c, m, e) ==
  [r |-> format(c, m).r, err |-> <<"failed to process duplicate keys: ">> \o e]

\* The return of ParseTags when processTagValues fails with error e; m is the
\* map built so far.
ParseTagsFail(c, m, e) ==
  [r |-> <<>>, err |-> <<"failed to process duplicate keys: ">> \o e]

\* The return of ParseTags after format returned f.
ParseTagsReturn(f) ==
  IF f.err # <<>>
  THEN [r |-> <<>>, err |-> <<"failed to format tags: ">> \o f.err]
  ELSE [r |-> f.r, err |-> <<>>]

\* The returns of the loop `for k, t := range ts` and of what follows it,
\* over every order in which the keys of todo can be visited; m is the map
\* built so far.
RECURSIVE RangeOutcomes(_, _, _, _)
RangeOutcomes(c, groups, rest, m) ==
  IF rest = {} THEN {ParseTagsReturn(format(c, m))}
  ELSE UNION {
         IF ~Selected(c, k) THEN RangeOutcomes(c, groups, rest \ {k}, m)
         ELSE LET key == ToUpper(k)
                  p   == processTagValues(c, key, groups[k])
              IN IF p.err # <<>> THEN {ParseTagsFail(c, m, p.err)}
                 ELSE RangeOutcomes(c, groups, rest \ {k},
                        [x \in DOMAIN m \cup {key} |->
                           IF x = key THEN p.val ELSE m[x]]) :
         k \in rest }

\* ParseTags(ctx, v) as a whole: the (string, error) pairs it can return.
ParseTagsOutcomes(v, c) ==
  RangeOutcomes(c, parseTags(v), DOMAIN parseTags(v), EmptyMap)

\* A map that is shared with the calls that run at the same time.
makeMap_Shared(existing) == existing

\* tagStrs := make(map[string]any): a new, empty map, whatever maps exist.
makeMap(existing) == EmptyMap

\* The locals of a ParseTags call that has not been made.
NoCall ==
  [text |-> <<>>, pc |-> "idle", ts |-> EmptyMap, todo |-> {},
   tagStrs |-> EmptyMap, r |-> <<>>, err |-> <<>>, warned |-> {}]

\* A ParseCommand whose Process is not run.
NoProcess ==
  [FlagType |-> "", pc |-> "idle", Reqs |-> <<>>,
   GetRequestBodyErr |-> <<>>, GetRequestBodyResponse |-> <<>>,
   GetIssueBodyErr |-> <<>>, GetIssueBodyResponse |-> <<>>,
   stdout |-> <<>>, merr |-> <<>>]

\* No platform: the runs of ParseTags and of Process on the MockPlatform.
NoPlatform == [kind |-> "none", pc |-> "idle"]

\* ts := parseTags(ctx, v)
ParseStart ==
  /\ pc = "start"
  /\ ts' = parseTags(text)
  /\ todo' = DOMAIN ts'
  /\ pc' = "range"
  /\ tagStrs' = makeMap(other.tagStrs)
  /\ UNCHANGED <<text, cfg, r, err, warned, outs, other, cmd, plat>>

\* One iteration of `for k, t := range ts` that hits `continue`.  A Go map
\* is ranged over in an unspecified order: k is any key not yet visited.
RangeSkip(k) ==
  /\ pc = "range"
  /\ k \in todo
  /\ ~Selected(cfg, k)
  /\ todo' = todo \ {k}
  /\ UNCHANGED <<text, cfg, pc, ts, tagStrs, r, err, warned, outs, other,
                 cmd, plat>>

\* One iteration that stores the typed value under the upper-cased key.
RangeStore(k) ==
  /\ pc = "range"
  /\ k \in todo
  /\ Selected(cfg, k)
  /\ LET key == ToUpper(k)
         p   == processTagValues(cfg, key, ts[k])
     IN /\ p.err = <<>>
        /\ tagStrs' = [x \in DOMAIN tagStrs \cup {key} |->
                         IF x = key THEN p.val ELSE tagStrs[x]]
        /\ warned' = IF p.warn THEN warned \cup {key} ELSE warned
  /\ todo' = todo \ {k}
  /\ UNCHANGED <<text, cfg, pc, ts, r, err, outs, other, cmd, plat>>

\* One iteration in which processTagValues fails: ParseTags returns.
RangeFail(k) ==
  /\ pc = "range"
  /\ k \in todo
  /\ Selected(cfg, k)
  /\ LET key == ToUpper(k)
         p   == processTagValues(cfg, key, ts[k])
         ret == ParseTagsFail(cfg, tagStrs, p.err)
     IN /\ p.err # <<>>
        /\ r' = ret.r
        /\ err' = ret.err
        /\ warned' = IF p.warn THEN warned \cup {key} ELSE warned
  /\ todo' = todo \ {k}
  /\ pc' = "done"
  /\ UNCHANGED <<text, cfg, ts, tagStrs, outs, other, cmd, plat>>

\* r, err := p.format(ctx, tagStrs) and the return that follows.
Format ==
  /\ pc = "range"
  /\ todo = {}
  /\ LET ret == ParseTagsReturn(format(cfg, tagStrs))
     IN r' = ret.r /\ err' = ret.err
  /\ pc' = "done"
  /\ UNCHANGED <<text, cfg, ts, todo, tagStrs, warned, outs, other, cmd,
                 plat>>

----------------------------------------------------------------------------
(* Inputs: the texts and the configurations ParseTags is run on            *)

Key_K == <<"K">>
Key_B == <<"B">>

\* The lines the texts are made of.
Lines ==
  { <<"K", "=", "a">>,                \* a tag
    <<"K", "=", "n">>,                \* a value a bool tag can be coerced from
    <<"k", "=", "b">>,                \* the key in lower case
    <<"B", "=", " ", "Y">>,           \* coercible after trimming and folding
    <<"B", "=", "x">>,                \* not coercible
    <<"x", " ", "K", "=", "a">>,      \* the construct after prose
    <<" ", "B", "=", "y">>,           \* the construct after white space
    <<"=", "a">> }                    \* no key character before the "="

\* Lines that end a text or stand between two tags.
EdgeLines ==
  { <<"K", "=">>,                     \* an empty value
    <<"B", "=", "y", "\r">>,          \* a line that ends with CR LF
    <<"x", "x">>,                     \* no "="
    <<>>,                             \* an empty line
    <<"K", "=", " ", "a", "=", "b", " ">>,   \* spaces and a second "="
    <<"K", "=", "a", "\r", "b">> }    \* a CR inside the line

\* The sequences of 1..n lines.
RECURSIVE LineSeqs(_)
LineSeqs(n) ==
  IF n = 0 THEN {<<>>}
  ELSE LET shorter == LineSeqs(n - 1)
       IN shorter \cup { Append(ls, l) : ls \in shorter, l \in Lines }

LineTexts == { Join(ls, <<"\n">>) : ls \in LineSeqs(MaxLines) \ {<<>>} }

\* The texts of two lines, one of them of EdgeLines.
EdgeTexts ==
  { Join(<<a, b>>, <<"\n">>) : a \in Lines \cup EdgeLines, b \in EdgeLines }
    \cup { Join(<<a, b>>, <<"\n">>) : a \in EdgeLines, b \in Lines }

MkConfig(a, s, b, all, f, pretty) ==
  [ArrayTags |-> a, StringTags |-> s, BoolTags |-> b, OutputAll |-> all,
   Format |-> f, PrettyPrint |-> pretty]

\* The configurations every text of LineTexts is parsed under.
LineConfigs ==
  { MkConfig(<<>>, <<>>, <<>>, TRUE, FormatRaw, FALSE),
    MkConfig(<<Key_K>>, <<>>, <<Key_B>>, FALSE, FormatRaw, FALSE),
    MkConfig(<<>>, <<>>, <<Key_K, Key_B>>, TRUE, FormatJSON, FALSE),
    MkConfig(<<>>, <<Key_K>>, <<Key_B>>, FALSE, FormatJSON, TRUE),
    MkConfig(<<>>, <<>>, <<>>, FALSE, FormatRaw, FALSE),
    MkConfig(<<>>, <<>>, <<>>, FALSE, FormatJSON, FALSE) }

\* Every combination of the typed lists, OutputAll, Format and PrettyPrint.
AllConfigs ==
  { MkConfig(a, s, b, all, f, pretty) :
      a \in {<<>>, <<Key_K>>},
      s \in {<<>>, <<Key_K>>, <<Key_B>>},
      b \in {<<>>, <<Key_B>>, <<Key_K, Key_B>>},
      all \in BOOLEAN,
      f \in {FormatRaw, FormatJSON, FormatUnspecified, "xml"},
      pretty \in BOOLEAN }

\* The texts parsed under every configuration.
ConfigTexts ==
  { <<>>,
    <<"K", "=", "a">>,
    <<"K", "=", "a", "\n", "K", "=", "n", "\n", "B", "=", "y">>,
    <<"k", "=", "b", "\n", "K", "=", "a">>,
    <<"B", "=", "x", "\n", "B", "=", "n", "\n", "K", "=", "a">>,
    <<"x", " ", "K", "=", "a", "\n", "B", "=", "x">>,
    <<"B", "=", "y", "\r", "\n", "K", "=", "\r", "\n">> }

\* The spellings of the word w in upper and lower case letters.
RECURSIVE CaseVariants(_)
CaseVariants(w) ==
  IF w = <<>> THEN {<<>>}
  ELSE { <<c>> \o rest : c \in {ToLowerChar(Head(w)), ToUpperChar(Head(w))},
                         rest \in CaseVariants(Tail(w)) }

BoolWords ==
  { Chars_yes, Chars_y, Chars_no, Chars_n, Chars_true, Chars_false,
    <<"t">>, <<"f">>, <<"1">>, <<"0">> }

\* Values that are no boolean word.
OtherWords ==
  { <<>>, <<"x">>, <<"2">>, <<"o","n">>, <<"t","r","u">>, <<"y","e","s","s">>,
    <<"t"," ","r","u","e">>, <<"0","1">>, <<"n","o","n","e">> }

Pads == { <<>>, <<" ">>, <<"\t">> }

BoolInputs ==
  { p \o w \o q :
      p \in Pads, q \in Pads,
      w \in UNION { CaseVariants(x) : x \in BoolWords \cup OtherWords } }

\* One-line texts that give the tag B one value.
BoolTexts == { <<"B", "=">> \o v : v \in BoolInputs }

BoolConfigs ==
  { MkConfig(<<>>, <<>>, <<Key_B>>, FALSE, FormatRaw, FALSE),
    MkConfig(<<>>, <<>>, <<Key_B>>, TRUE, FormatJSON, FALSE) }

\* Keys of letters, digits and underscores in both letter cases.
OrderKeys ==
  { <<"K">>, <<"b">>, <<"_">>, <<"1">>, <<"K", "_">>, <<"K", "B">>,
    <<"k", "1">> }

\* The texts of three tags with different keys, in every order.
OrderTexts ==
  { Join(<<a \o <<"=", "a">>, b \o <<"=", "a">>, c \o <<"=", "a">>>>,
         <<"\n">>) :
      <<a, b, c>> \in { t \in OrderKeys \X OrderKeys \X OrderKeys :
                          t[1] # t[2] /\ t[1] # t[3] /\ t[2] # t[3] } }

OrderConfigs ==
  { MkConfig(<<>>, <<>>, <<>>, TRUE, f, pretty) :
      f \in {FormatRaw, FormatJSON}, pretty \in BOOLEAN }

\* Values with commas and backslashes.
CommaValues ==
  { <<>>, <<"c">>, <<"a", ",", "b">>, <<",">>, <<",", ",">>,
    <<"a", "\\">>, <<"\\", ",">>, <<"\\">> }

Key_TAG_1 == <<"T", "A", "G", "_", "1">>

Chars_some_value_ok ==
  <<"s","o","m","e"," ","v","a","l","u","e",","," ","o","k">>

Chars_another_value_yes ==
  <<"a","n","o","t","h","e","r"," ","v","a","l","u","e",","," ",
    "y","e","s">>

\* The texts of one or two occurrences of the tag K.
CommaTexts ==
  { <<"K", "=">> \o v : v \in CommaValues }
    \cup { <<"K", "=">> \o v \o <<"\n", "K", "=">> \o w :
             v \in CommaValues, w \in CommaValues }
    \cup { Key_TAG_1 \o <<"=">> \o Chars_some_value_ok \o <<"\n">>
             \o Key_TAG_1 \o <<"=">> \o Chars_another_value_yes }

CommaConfigs ==
  { MkConfig(<<Key_K, Key_TAG_1>>, <<>>, <<>>, FALSE, f, pretty) :
      f \in {FormatRaw, FormatJSON}, pretty \in BOOLEAN }
    \cup { MkConfig(<<>>, <<Key_K>>, <<>>, FALSE, FormatRaw, FALSE) }

Key_k == <<"k">>
Key_b == <<"b">>

\* Configurations whose typed lists hold names with lower-case letters.
CaseConfigs ==
  { MkConfig(<<Key_k>>, <<>>, <<Key_b>>, all, f, FALSE) :
      all \in BOOLEAN, f \in {FormatRaw, FormatJSON} }
    \cup { MkConfig(<<>>, <<Key_k>>, <<Key_B, Key_b>>, FALSE, FormatRaw, FALSE) }

Inputs ==
  ((LineTexts \cup EdgeTexts) \X LineConfigs) \cup (ConfigTexts \X AllConfigs)
    \cup (BoolTexts \X BoolConfigs) \cup (OrderTexts \X OrderConfigs)
    \cup (CommaTexts \X CommaConfigs) \cup (ConfigTexts \X CaseConfigs)

----------------------------------------------------------------------------
(* The state machine of one ParseTags call                                 *)

Init ==
  /\ \E in \in Inputs : text = in[1] /\ cfg = in[2]
  /\ pc = "start"
  /\ ts = EmptyMap
  /\ todo = {}
  /\ tagStrs = EmptyMap
  /\ r = <<>>
  /\ err = <<>>
  /\ warned = {}
  /\ outs = <<>>
  /\ other = NoCall
  /\ cmd = NoProcess
  /\ plat = NoPlatform

Next ==
  \/ ParseStart
  \/ \E k \in todo : RangeSkip(k)
  \/ \E k \in todo : RangeStore(k)
  \/ \E k \in todo : RangeFail(k)
  \/ Format

Spec == Init /\ [][Next]_vars

----------------------------------------------------------------------------
(* format called again and again on one map                                *)

\* The sequences that hold every element of the set S once.
RECURSIVE Perms(_)
Perms(S) ==
  IF S = {} THEN {<<>>}
  ELSE UNION { { <<x>> \o p : p \in Perms(S \ {x}) } : x \in S }

\* keys := maps.Keys(ts): the keys of the map in an unspecified order.
mapsKeys(m) == Perms(DOMAIN m)

\* A format that writes the keys in the order maps.Keys gave them.
sortStrings_None(keys) == keys

\* sort.Strings(keys)
sortStrings(keys) == SortStrings(Range(keys))

\* format, keys being what maps.Keys returned in its raw branch.
formatFrom(c, m, keys) ==
  IF c.Format = FormatRaw THEN formatRawLines(m, sortStrings(keys))
  ELSE format(c, m)

\* The typed values of the maps format is called on.
FormatValues ==
  { StringValue(<<"a", ",", "b">>), BoolValue(TRUE),
    SliceValue(<< <<"a", ",", "b">>, <<"c">> >>), SliceValue(<< <<>> >>) }

FormatKeys == { Key_K, Key_B, <<"_">> }

FormatMaps == UNION { [S -> FormatValues] : S \in SUBSET FormatKeys }

FormatConfigs ==
  { MkConfig(<<>>, <<>>, <<>>, FALSE, f, pretty) :
      f \in {FormatRaw, FormatJSON, FormatUnspecified, "xml"},
      pretty \in BOOLEAN }

InitFormat ==
  /\ tagStrs \in FormatMaps
  /\ cfg \in FormatConfigs
  /\ pc = "format"
  /\ text = <<>>
  /\ ts = EmptyMap
  /\ todo = {}
  /\ r = <<>>
  /\ err = <<>>
  /\ warned = {}
  /\ outs = <<>>
  /\ other = NoCall
  /\ cmd = NoProcess
  /\ plat = NoPlatform

\* One call p.format(ctx, tagStrs).  The map is read only: stringifyRaw
\* writes the escaped elements to a slice of its own.
FormatCall ==
  /\ pc = "format"
  /\ \E keys \in mapsKeys(tagStrs) :
       LET f == formatFrom(cfg, tagStrs, keys)
       IN /\ outs' = IF outs = <<>> THEN <<f>> ELSE <<outs[1], f>>
          /\ r' = f.r
          /\ err' = f.err
  /\ UNCHANGED <<text, cfg, pc, ts, todo, tagStrs, warned, other, cmd,
                 plat>>

NextFormat == FormatCall

SpecFormat == InitFormat /\ [][NextFormat]_vars

----------------------------------------------------------------------------
(* Two ParseTags calls on one TagParser, interleaved                       *)

\* The texts of the two calls.
ConcTexts ==
  { <<"K", "=", "a", "\n", "B", "=", "y">>,
    <<"k", "=", "b", "\n", "K", "=", "a">>,
    <<"B", "=", "x">>,
    <<"B", "=", "n">>,
    <<"Z", "=", "a", "\n", "K", "=", "a", ",", "b", "\n", "K", "=", "c">> }

ConcConfigs ==
  { MkConfig(<<Key_K>>, <<>>, <<Key_B>>, FALSE, FormatRaw, FALSE),
    MkConfig(<<>>, <<>>, <<Key_B>>, TRUE, FormatJSON, TRUE) }

InitConc ==
  /\ text \in ConcTexts
  /\ cfg \in ConcConfigs
  /\ pc = "start"
  /\ ts = EmptyMap
  /\ todo = {}
  /\ tagStrs = EmptyMap
  /\ r = <<>>
  /\ err = <<>>
  /\ warned = {}
  /\ outs = <<>>
  /\ \E v \in ConcTexts : other = [NoCall EXCEPT !.text = v, !.pc = "start"]
  /\ cmd = NoProcess
  /\ plat = NoPlatform

\* What a step of the second call leaves alone.
OtherOnly ==
  UNCHANGED <<text, cfg, pc, ts, todo, tagStrs, r, err, warned, outs, cmd,
              plat>>

\* ParseStart of the second call.
OtherStart ==
  /\ other.pc = "start"
  /\ other' = [other EXCEPT !.ts = parseTags(other.text),
                            !.todo = DOMAIN parseTags(other.text),
                            !.tagStrs = makeMap(tagStrs),
                            !.pc = "range"]
  /\ OtherOnly

\* RangeSkip of the second call.
OtherSkip(k) ==
  /\ other.pc = "range"
  /\ k \in other.todo
  /\ ~Selected(cfg, k)
  /\ other' = [other EXCEPT !.todo = @ \ {k}]
  /\ OtherOnly

\* RangeStore of the second call.
OtherStore(k) ==
  /\ other.pc = "range"
  /\ k \in other.todo
  /\ Selected(cfg, k)
  /\ LET key == ToUpper(k)
         p   == processTagValues(cfg, key, other.ts[k])
     IN /\ p.err = <<>>
        /\ other' =
             [other EXCEPT
                !.tagStrs = [x \in DOMAIN @ \cup {key} |->
                               IF x = key THEN p.val ELSE @[x]],
                !.warned = IF p.warn THEN @ \cup {key} ELSE @,
                !.todo = @ \ {k}]
  /\ OtherOnly

\* RangeFail of the second call.
OtherFail(k) ==
  /\ other.pc = "range"
  /\ k \in other.todo
  /\ Selected(cfg, k)
  /\ LET key == ToUpper(k)
         p   == processTagValues(cfg, key, other.ts[k])
         ret == ParseTagsFail(cfg, other.tagStrs, p.err)
     IN /\ p.err # <<>>
        /\ other' = [other EXCEPT
                       !.r = ret.r,
                       !.err = ret.err,
                       !.warned = IF p.warn THEN @ \cup {key} ELSE @,
                       !.todo = @ \ {k},
                       !.pc = "done"]
  /\ OtherOnly

\* Format of the second call.
OtherFormat ==
  /\ other.pc = "range"
  /\ other.todo = {}
  /\ LET ret == ParseTagsReturn(format(cfg, other.tagStrs))
     IN other' = [other EXCEPT !.r = ret.r, !.err = ret.err, !.pc = "done"]
  /\ OtherOnly

NextConc ==
  \/ ParseStart
  \/ \E k \in todo : RangeSkip(k)
  \/ \E k \in todo : RangeStore(k)
  \/ \E k \in todo : RangeFail(k)
  \/ Format
  \/ OtherStart
  \/ \E k \in other.todo : OtherSkip(k)
  \/ \E k \in other.todo : OtherStore(k)
  \/ \E k \in other.todo : OtherFail(k)
  \/ OtherFormat

SpecConc == InitConc /\ [][NextConc]_vars

----------------------------------------------------------------------------
(* ParseCommand.Process on a MockPlatform                                  *)

TypeUnspecified == ""
TypeIssue == "issue"
TypeRequest == "request"

\* A switch whose default case is the request.
SwitchCase_RequestDefault(flagType) ==
  IF flagType = TypeIssue THEN TypeIssue ELSE TypeRequest

\* switch c.FlagType: the case taken.
SwitchCase(flagType) ==
  IF flagType = TypeRequest THEN TypeRequest
  ELSE IF flagType = TypeIssue THEN TypeIssue
  ELSE "default"

\* MockPlatform.GetRequestBody: the log of requests after the call, and the
\* body and the error it returns.
GetRequestBody(m) ==
  [Reqs |-> Append(m.Reqs, "GetRequestBody"),
   body |-> IF m.GetRequestBodyErr # <<>> THEN <<>>
            ELSE m.GetRequestBodyResponse,
   err  |-> m.GetRequestBodyErr]

\* MockPlatform.GetIssueBody
GetIssueBody(m) ==
  [Reqs |-> Append(m.Reqs, "GetIssueBody"),
   body |-> IF m.GetIssueBodyErr # <<>> THEN <<>>
            ELSE m.GetIssueBodyResponse,
   err  |-> m.GetIssueBodyErr]

\* The values of the flag -type, allowed or not.
ProcessTypes == { TypeRequest, TypeIssue, TypeUnspecified, "commit" }

\* The errors of the platform: none, or one.
PlatformErrs == { <<>>, <<"not found">> }

InitProcess ==
  /\ text = <<>>
  /\ cfg \in ConcConfigs
  /\ pc = "idle"
  /\ ts = EmptyMap
  /\ todo = {}
  /\ tagStrs = EmptyMap
  /\ r = <<>>
  /\ err = <<>>
  /\ warned = {}
  /\ outs = <<>>
  /\ other = NoCall
  /\ \E t \in ProcessTypes, b1 \in ConcTexts, b2 \in ConcTexts,
        e1 \in PlatformErrs, e2 \in PlatformErrs :
       cmd = [NoProcess EXCEPT !.FlagType = t,
                               !.pc = "switch",
                               !.GetRequestBodyResponse = b1,
                               !.GetRequestBodyErr = e1,
                               !.GetIssueBodyResponse = b2,
                               !.GetIssueBodyErr = e2]
  /\ plat = NoPlatform

\* What follows a call res of the platform: the return with the wrapped
\* error, or the call c.tagParser.ParseTags(ctx, body).
AfterGetBody(res, wrap) ==
  IF res.err # <<>>
  THEN /\ cmd' = [cmd EXCEPT !.Reqs = res.Reqs,
                             !.pc = "return",
                             !.merr = <<wrap>> \o res.err]
       /\ UNCHANGED <<text, pc>>
  ELSE /\ cmd' = [cmd EXCEPT !.Reqs = res.Reqs, !.pc = "parse"]
       /\ text' = res.body
       /\ pc' = "start"

\* case TypeRequest
ProcessRequest ==
  /\ cmd.pc = "switch"
  /\ SwitchCase(cmd.FlagType) = TypeRequest
  /\ AfterGetBody(GetRequestBody(cmd), "failed to get request body: ")
  /\ UNCHANGED <<cfg, ts, todo, tagStrs, r, err, warned, outs, other,
                 plat>>

\* case TypeIssue
ProcessIssue ==
  /\ cmd.pc = "switch"
  /\ SwitchCase(cmd.FlagType) = TypeIssue
  /\ AfterGetBody(GetIssueBody(cmd), "failed to get issue body: ")
  /\ UNCHANGED <<cfg, ts, todo, tagStrs, r, err, warned, outs, other,
                 plat>>

\* default
ProcessDefault ==
  /\ cmd.pc = "switch"
  /\ SwitchCase(cmd.FlagType) = "default"
  /\ cmd' = [cmd EXCEPT
               !.pc = "return",
               !.merr =
                 <<"failed to process tags for unsupported version control "
                     \o "object of type ",
                   cmd.FlagType>>]
  /\ UNCHANGED <<text, cfg, pc, ts, todo, tagStrs, r, err, warned, outs,
                 other, plat>>

\* A Process that prints what ParseTags returned before it looks at the
\* error.
ProcessReturn_PrintFirst ==
  /\ cmd.pc = "parse"
  /\ pc = "done"
  /\ cmd' = IF err # <<>>
            THEN [cmd EXCEPT !.pc = "return",
                             !.stdout = Append(@, r),
                             !.merr = <<"failed to parse tags: ">> \o err]
            ELSE [cmd EXCEPT !.pc = "return", !.stdout = Append(@, r)]
  /\ UNCHANGED <<text, cfg, pc, ts, todo, tagStrs, r, err, warned, outs,
                 other, plat>>

\* What Process does when ParseTags has returned: the return of the wrapped
\* error, or c.Outf(ts) and the return of nil; stdout holds the arguments
\* of the calls of Outf.
ProcessReturn ==
  /\ cmd.pc = "parse"
  /\ pc = "done"
  /\ cmd' = IF err # <<>>
            THEN [cmd EXCEPT !.pc = "return",
                             !.merr = <<"failed to parse tags: ">> \o err]
            ELSE [cmd EXCEPT !.pc = "return", !.stdout = Append(@, r)]
  /\ UNCHANGED <<text, cfg, pc, ts, todo, tagStrs, r, err, warned, outs,
                 other, plat>>

NextProcess ==
  \/ ProcessRequest
  \/ ProcessIssue
  \/ ProcessDefault
  \/ ParseStart
  \/ \E k \in todo : RangeSkip(k)
  \/ \E k \in todo : RangeStore(k)
  \/ \E k \in todo : RangeFail(k)
  \/ Format
  \/ ProcessReturn

SpecProcess == InitProcess /\ [][NextProcess]_vars

----------------------------------------------------------------------------
(* The GitHub and GitLab platforms: flags, validation, fetch with retries   *)

\* A flag of the command line: given with a value, or not given (the value
\* is then the zero value of its type).
NumberNotGiven == [given |-> FALSE, value |-> 0]

BodyNotGiven == [given |-> FALSE, value |-> ""]

Given(v) == [given |-> TRUE, value |-> v]

\* The value of a flag whose Default is d.
FlagValue(f, d) == IF f.given THEN f.value ELSE d

\* What gitHubConfig.Load takes from the event of the workflow: nothing, a
\* number, or a number and a body.
ContextBody == "context body"

gitHubConfigDefaults ==
  { [PullRequestNumber |-> n[1], PullRequestBody |-> n[2],
     IssueNumber |-> i[1], IssueBody |-> i[2]] :
      n \in {<<0, "">>, <<7, "">>, <<7, ContextBody>>},
      i \in {<<0, "">>, <<7, "">>, <<7, ContextBody>>} }

NumberFlags == {NumberNotGiven, Given(0), Given(7), Given(8)}

UserBody == "user body"

BodyFlags == {BodyNotGiven, Given(""), Given(UserBody)}

\* The flags of the four GitHub values and of the retries.
GitHubFlags ==
  { [PullRequestNumber |-> f[1], PullRequestBody |-> f[2],
     IssueNumber |-> f[3], IssueBody |-> f[4], MaxRetries |-> m,
     GitHubOwner |-> o[1], GitHubRepo |-> o[2]] :
      f \in { g \in NumberFlags \X BodyFlags \X NumberFlags \X BodyFlags :
                g[2] = BodyNotGiven \/ g[4] = BodyNotGiven },
      m \in {0, 1},
      o \in {<<"o", "r">>, <<"", "r">>, <<"o", "">>} }

\* The gitHubConfig the flag set fills: each target holds the value of its
\* flag, or the Default the flag takes from configDefaults.
GitHubFlagSet(d, f) ==
  [GitHubOwner |-> f.GitHubOwner,
   GitHubRepo |-> f.GitHubRepo,
   GitHubPullRequestNumber |-> FlagValue(f.PullRequestNumber,
                                         d.PullRequestNumber),
   GitHubPullRequestBody |-> FlagValue(f.PullRequestBody, d.PullRequestBody),
   GitHubIssueNumber |-> FlagValue(f.IssueNumber, d.IssueNumber),
   GitHubIssueBody |-> FlagValue(f.IssueBody, d.IssueBody),
   MaxRetries |-> f.MaxRetries]

\* The gitLabConfig values.
GitLabConfigs ==
  { [GitLabProjectID |-> p, GitLabMergeRequestIID |-> m, GitLabIssueIID |-> i,
     TagrepGitLabToken |-> t, MaxRetries |-> n] :
      p \in {0, 1}, m \in {0, 5}, i \in {0, 6}, t \in {"", "token"},
      n \in {0, 1, 2} }

\* An AfterParse that leaves the bodies as the flags set them.
AfterParse_KeepBody(c, d) == c

\* The function gitHubConfig registers with set.AfterParse.
AfterParse(c, d) ==
  LET userProvidedPRNumberOverride ==
        /\ d.PullRequestNumber > 0
        /\ d.PullRequestNumber # c.GitHubPullRequestNumber
      userProvidedIssueNumberOverride ==
        /\ d.IssueNumber > 0
        /\ d.IssueNumber # c.GitHubIssueNumber
  IN  [c EXCEPT
         !.GitHubPullRequestBody =
            IF /\ userProvidedPRNumberOverride
               /\ d.PullRequestBody = c.GitHubPullRequestBody
            THEN "" ELSE @,
         !.GitHubIssueBody =
            IF /\ userProvidedIssueNumberOverride
               /\ d.IssueBody = c.GitHubIssueBody
            THEN "" ELSE @]

\* if cfg.MaxRetries <= 0 { cfg.MaxRetries = 3 }
NewGitHub(c) == [c EXCEPT !.MaxRetries = IF @ <= 0 THEN 3 ELSE @]

NewGitLab(c) == [c EXCEPT !.MaxRetries = IF @ <= 0 THEN 3 ELSE @]

\* errors.Join of the messages, nil when there is none.
validateGitHubInputs(c) ==
  (IF c.GitHubOwner = "" THEN <<"github owner is required">> ELSE <<>>)
  \o (IF c.GitHubRepo = "" THEN <<"github repo is required">> ELSE <<>>)
  \o (IF c.GitHubPullRequestNumber <= 0 /\ c.GitHubIssueNumber <= 0
      THEN <<"one of github pull request number or github issue number "
             \o "is required">>
      ELSE <<>>)

validateGitLabInputs(c) ==
  (IF c.GitLabProjectID <= 0
   THEN <<"gitlab project id is required">> ELSE <<>>)
  \o (IF c.GitLabMergeRequestIID <= 0 /\ c.GitLabIssueIID <= 0
      THEN <<"gitlab merge request id or issue id is required">>
      ELSE <<>>)
  \o (IF c.TagrepGitLabToken = ""
      THEN <<"gitlab token is required">> ELSE <<>>)

ignoredStatusCodes == {403, 422}

gitLabIgnoredStatusCodes == {403, 405, 422}

\* What a call of the API answers.  A pointer is a sequence of at most one
\* element, nil the empty one: resp is the *Response, body the Body of the
\* document (on GitLab the Description, a string that is empty when the
\* document has none), err tells whether the call returned an error.
ApiBody == "api body"

ApiErr == "api error"

Answers ==
  { [err |-> FALSE, resp |-> <<[StatusCode |-> 200]>>, body |-> b] :
      b \in {<<>>, <<ApiBody>>} }
  \cup { [err |-> TRUE, resp |-> <<[StatusCode |-> s]>>, body |-> <<>>] :
           s \in {403, 405, 422, 500} }
  \cup { [err |-> TRUE, resp |-> <<>>, body |-> <<>>] }

\* What the function handed to retry.Do returns: nil, an error, a
\* retry.RetryableError, or no return because the function panics on the
\* field of a nil pointer.
githubMaybeRetryable(resp) ==
  IF resp = <<>> THEN "panic"
  ELSE IF resp[1].StatusCode \notin ignoredStatusCodes THEN "retryable"
  ELSE "error"

gitlabMaybeRetryable(resp) ==
  IF resp # <<>>
  THEN IF resp[1].StatusCode \notin gitLabIgnoredStatusCodes
       THEN "retryable" ELSE "error"
  ELSE "error"

\* The closures of GitHub.GetRequestBody and of GitHub.GetIssueBody on the
\* answer a: what they return and the body they assign.
PullRequestsGet(a) ==
  IF a.err THEN [ret |-> githubMaybeRetryable(a.resp), body |-> ""]
  ELSE [ret |-> "nil", body |-> IF a.body # <<>> THEN a.body[1] ELSE ""]

IssuesGet(a) ==
  IF a.err THEN [ret |-> githubMaybeRetryable(a.resp), body |-> ""]
  ELSE IF a.body = <<>> THEN [ret |-> "panic", body |-> ""]
  ELSE [ret |-> "nil", body |-> a.body[1]]

\* The closures of GitLab.GetRequestBody and of GitLab.GetIssueBody.
GetMergeRequest(a) ==
  IF a.err THEN [ret |-> gitlabMaybeRetryable(a.resp), body |-> ""]
  ELSE [ret |-> "nil", body |-> IF a.body # <<>> THEN a.body[1] ELSE ""]

GetIssue(a) ==
  IF a.err THEN [ret |-> gitlabMaybeRetryable(a.resp), body |-> ""]
  ELSE [ret |-> "nil", body |-> IF a.body # <<>> THEN a.body[1] ELSE ""]

\* A platform before its flags are parsed.
NewPlatform(kind, d, f, c) ==
  [kind |-> kind, pc |-> IF kind = "github" THEN "flags" ELSE "new",
   defaults |-> d, flags |-> f, cfg |-> c, op |-> "", calls |-> <<>>,
   last |-> <<>>,
   result |-> [kind |-> "none", body |-> "", err |-> <<>>]]

InitFetch ==
  /\ text = <<>>
  /\ cfg = MkConfig(<<>>, <<>>, <<>>, FALSE, FormatRaw, FALSE)
  /\ pc = "idle"
  /\ ts = EmptyMap
  /\ todo = {}
  /\ tagStrs = EmptyMap
  /\ r = <<>>
  /\ err = <<>>
  /\ warned = {}
  /\ outs = <<>>
  /\ other = NoCall
  /\ cmd = NoProcess
  /\ \/ \E d \in gitHubConfigDefaults, f \in GitHubFlags :
          plat = NewPlatform("github", d, f, GitHubFlagSet(d, f))
     \/ \E c \in GitLabConfigs :
          plat = NewPlatform("gitlab", <<>>, [MaxRetries |-> c.MaxRetries], c)

\* What a step of the platform leaves alone.
PlatformOnly ==
  UNCHANGED <<text, cfg, pc, ts, todo, tagStrs, r, err, warned, outs, other,
              cmd>>

\* The flag set has parsed the command line and runs AfterParse.
FlagsParsed ==
  /\ plat.pc = "flags"
  /\ plat' = [plat EXCEPT !.cfg = AfterParse(plat.cfg, plat.defaults),
                          !.pc = "new"]
  /\ PlatformOnly

CallNewGitHub ==
  /\ plat.pc = "new"
  /\ plat.kind = "github"
  /\ plat' = [plat EXCEPT !.cfg = NewGitHub(plat.cfg), !.pc = "ready"]
  /\ PlatformOnly

CallNewGitLab ==
  /\ plat.pc = "new"
  /\ plat.kind = "gitlab"
  /\ plat' = [plat EXCEPT !.cfg = NewGitLab(plat.cfg), !.pc = "ready"]
  /\ PlatformOnly

\* A return of the call.
Return(body, e) == [kind |-> "return", body |-> body, err |-> e]

\* The call has panicked: it returns nothing and the process ends.
Panic == [kind |-> "panic", body |-> "", err |-> <<>>]

\* The entry of a Get...Body: the configured body if there is one, the
\* error of the validation, or the start of the retries.
Enter(op, body, invalid) ==
  /\ plat.pc = "ready"
  /\ plat' =
       IF body # ""
       THEN [plat EXCEPT !.op = op, !.pc = "done",
                         !.result = Return(body, <<>>)]
       ELSE IF invalid # <<>>
       THEN [plat EXCEPT !.op = op, !.pc = "done",
                         !.result = Return("", <<"failed to validate "
                                                 \o "inputs: ">> \o invalid)]
       ELSE [plat EXCEPT !.op = op, !.pc = "retry"]
  /\ PlatformOnly

GitHubGetRequestBody ==
  /\ plat.kind = "github"
  /\ Enter("GetRequestBody", plat.cfg.GitHubPullRequestBody,
           validateGitHubInputs(plat.cfg))

GitHubGetIssueBody ==
  /\ plat.kind = "github"
  /\ Enter("GetIssueBody", plat.cfg.GitHubIssueBody,
           validateGitHubInputs(plat.cfg))

GitLabGetRequestBody ==
  /\ plat.kind = "gitlab"
  /\ Enter("GetRequestBody", "", validateGitLabInputs(plat.cfg))

GitLabGetIssueBody ==
  /\ plat.kind = "gitlab"
  /\ Enter("GetIssueBody", "", validateGitLabInputs(plat.cfg))

\* One attempt of retry.Do under retry.WithMaxRetries(MaxRetries): the call
\* of the API with the number, logged in calls, and what follows from what
\* the closure f (a function of the answer) returns.  A retryable error is
\* retried while the attempts made are at most MaxRetries, and returned
\* after that.
withRetries(api, number, f, wrap) ==
  \E a \in Answers :
    LET calls == Append(plat.calls, [api |-> api, number |-> number])
        e == wrap \o <<"failed to execute retriable function: ", ApiErr>>
    IN  /\ plat.pc = "retry"
        /\ plat' =
             IF f[a].ret = "nil"
             THEN [plat EXCEPT !.calls = calls, !.last = <<a>>,
                               !.pc = "done",
                               !.result = Return(f[a].body, <<>>)]
             ELSE IF f[a].ret = "panic"
             THEN [plat EXCEPT !.calls = calls, !.last = <<a>>,
                               !.pc = "done", !.result = Panic]
             ELSE IF f[a].ret = "retryable"
                     /\ Len(calls) <= plat.cfg.MaxRetries
             THEN [plat EXCEPT !.calls = calls, !.last = <<a>>]
             ELSE [plat EXCEPT !.calls = calls, !.last = <<a>>,
                               !.pc = "done", !.result = Return("", e)]
        /\ PlatformOnly

GitHubPullRequestsGet ==
  /\ plat.kind = "github"
  /\ plat.op = "GetRequestBody"
  /\ withRetries("PullRequests.Get", plat.cfg.GitHubPullRequestNumber,
                 [a \in Answers |-> PullRequestsGet(a)],
                 <<"failed to get pull request body: ">>)

GitHubIssuesGet ==
  /\ plat.kind = "github"
  /\ plat.op = "GetIssueBody"
  /\ withRetries("Issues.Get", plat.cfg.GitHubIssueNumber,
                 [a \in Answers |-> IssuesGet(a)],
                 <<"failed to get pull request body: ">>)

GitLabGetMergeRequest ==
  /\ plat.kind = "gitlab"
  /\ plat.op = "GetRequestBody"
  /\ withRetries("MergeRequests.GetMergeRequest",
                 plat.cfg.GitLabMergeRequestIID,
                 [a \in Answers |-> GetMergeRequest(a)],
                 <<"failed to list reports: ">>)

GitLabGetIssue ==
  /\ plat.kind = "gitlab"
  /\ plat.op = "GetIssueBody"
  /\ withRetries("Issues.GetIssue", plat.cfg.GitLabIssueIID,
                 [a \in Answers |-> GetIssue(a)],
                 <<"failed to list reports: ">>)

NextFetch ==
  \/ FlagsParsed
  \/ CallNewGitHub
  \/ CallNewGitLab
  \/ GitHubGetRequestBody
  \/ GitHubGetIssueBody
  \/ GitLabGetRequestBody
  \/ GitLabGetIssueBody
  \/ GitHubPullRequestsGet
  \/ GitHubIssuesGet
  \/ GitLabGetMergeRequest
  \/ GitLabGetIssue

SpecFetch == InitFetch /\ [][NextFetch]_vars

----------------------------------------------------------------------------
(* What the text and the output say, read independently of the parser      *)

\* The pieces of s between the occurrences of the character c.
RECURSIVE SplitOn(_, _)
SplitOn(s, c) ==
  IF \E i \in 1..Len(s) : s[i] = c
  THEN LET i == CHOOSE n \in 1..Len(s) :
                  s[n] = c /\ \A m \in 1..(n - 1) : s[m] # c
       IN <<SubSeq(s, 1, i - 1)>> \o SplitOn(SubSeq(s, i + 1, Len(s)), c)
  ELSE <<s>>

\* The line has the shape of a tag: key characters only, then "=".
LineIsTag(line) ==
  \E j \in 1..Len(line) :
    line[j] = "=" /\ \A i \in 1..(j - 1) : line[i] \in KeyChars

\* The key and the value of a line that has the shape of a tag.
TagOfLine(line) ==
  LET j == CHOOSE n \in 1..Len(line) :
             line[n] = "=" /\ \A i \in 1..(n - 1) : line[i] # "="
  IN [key   |-> SubSeq(line, 1, j - 1),
      value |-> SplitOn(SubSeq(line, j + 1, Len(line)), "\r")[1]]

RECURSIVE TagsOfLines(_)
TagsOfLines(ls) ==
  IF ls = <<>> THEN <<>>
  ELSE (IF LineIsTag(Head(ls)) THEN <<TagOfLine(Head(ls))>> ELSE <<>>)
         \o TagsOfLines(Tail(ls))

\* The tags of the text, line by line, in source order.
TagsOfText(v) == TagsOfLines(SplitOn(v, "\n"))

\* The values, in source order, of the tags whose key is in the set ks.
RECURSIVE ValuesOf(_, _)
ValuesOf(tags, ks) ==
  IF tags = <<>> THEN <<>>
  ELSE (IF Head(tags).key \in ks THEN <<Head(tags).value>> ELSE <<>>)
         \o ValuesOf(Tail(tags), ks)

FoundKeys(v) == { t.key : t \in Range(TagsOfText(v)) }

\* The group of the upper-cased key: the values of every occurrence of the
\* key in any letter case.
UpperGroup(v, key) ==
  ValuesOf(TagsOfText(v), { k \in FoundKeys(v) : ToUpper(k) = key })

Last(vs) == vs[Len(vs)]

InAnyList(c, key) ==
  Contains(c.ArrayTags, key) \/ Contains(c.StringTags, key)
    \/ Contains(c.BoolTags, key)

\* The keys the selection rule lets through.
ExpectedKeys(v, c) ==
  { key \in { ToUpper(k) : k \in FoundKeys(v) } :
      c.OutputAll \/ InAnyList(c, key) }

IsArrayTag(c, key) == Contains(c.ArrayTags, key)

\* The key is coerced to a boolean: bool-declared, and neither array nor
\* string tag.
IsBoolTag(c, key) ==
  /\ Contains(c.BoolTags, key)
  /\ ~Contains(c.ArrayTags, key)
  /\ ~Contains(c.StringTags, key)

\* v is the word w in any letter case, surrounded by white space only.
IsWord(v, w) ==
  \E i \in 1..Len(v) :
    /\ i + Len(w) - 1 <= Len(v)
    /\ \A n \in 1..Len(w) : ToLowerChar(v[i + n - 1]) = w[n]
    /\ \A n \in 1..Len(v) :
         (n < i \/ n > i + Len(w) - 1) => v[n] \in WhiteSpace

TrueWords == { <<"1">>, <<"t">>, Chars_true, Chars_yes, Chars_y }

FalseWords == { <<"0">>, <<"f">>, Chars_false, Chars_no, Chars_n }

IsTrueWord(v) == \E w \in TrueWords : IsWord(v, w)

IsFalseWord(v) == \E w \in FalseWords : IsWord(v, w)

Coercible(v) == IsTrueWord(v) \/ IsFalseWord(v)

\* The typed value of a key that is not an array tag, from one value.
ScalarFrom(c, key, v) ==
  IF IsBoolTag(c, key) THEN BoolValue(IsTrueWord(v)) ELSE StringValue(v)

\* The lines of a raw output: the pieces before each "\n".
RawLines(out) ==
  LET ps == SplitOn(out, "\n") IN SubSeq(ps, 1, Len(ps) - 1)

KeyOfRawLine(line) == SplitOn(line, "=")[1]

RawKeys(out) == { KeyOfRawLine(l) : l \in Range(RawLines(out)) }

\* The member names of the JSON object out: the strings at depth 1 that a
\* ":" follows.
RECURSIVE JsonScan(_, _, _, _, _)
JsonScan(out, i, depth, open, keys) ==
  IF i > Len(out) THEN keys
  ELSE IF open > 0
  THEN IF out[i] = "\\" THEN JsonScan(out, i + 2, depth, open, keys)
       ELSE IF out[i] = "\""
       THEN JsonScan(out, i + 1, depth, 0,
              IF depth = 1 /\ i < Len(out) /\ out[i + 1] = ":"
              THEN keys \cup {SubSeq(out, open + 1, i - 1)} ELSE keys)
       ELSE JsonScan(out, i + 1, depth, open, keys)
  ELSE IF out[i] = "\"" THEN JsonScan(out, i + 1, depth, i, keys)
  ELSE IF out[i] \in {"{", "["} THEN JsonScan(out, i + 1, depth + 1, 0, keys)
  ELSE IF out[i] \in {"}", "]"} THEN JsonScan(out, i + 1, depth - 1, 0, keys)
  ELSE JsonScan(out, i + 1, depth, 0, keys)

JsonKeys(out) == JsonScan(out, 1, 0, 0, {})

\* The keys that appear in the output of ParseTags.
OutputKeys ==
  IF cfg.Format = FormatRaw THEN RawKeys(r)
  ELSE IF cfg.Format = FormatJSON THEN JsonKeys(r)
  ELSE {}

\* s occurs in the message as a run of consecutive characters.
Occurs(s, msg) ==
  \E i \in 1..(Len(msg) + 1) :
    /\ i + Len(s) - 1 <= Len(msg)
    /\ \A n \in 1..Len(s) : msg[i + n - 1] = s[n]

ProcessFailed == err # <<>> /\ err[1] = "failed to process duplicate keys: "

----------------------------------------------------------------------------
(* Claims                                                                  *)

\* C1: a KEY=value construct is extracted exactly when its key begins at
\* the first character of a line: the groups parseTags returns are the tags
\* of the lines of the text that begin with the key token and "=", grouped
\* by key in source order; a construct after prose or white space on its
\* line contributes nothing.
C1_LineStartAnchoring ==
  pc # "start" =>
    /\ DOMAIN ts = FoundKeys(text)
    /\ \A k \in DOMAIN ts : ts[k] = ValuesOf(TagsOfText(text), {k})

\* The text `x K=a` / `B= Y`: only the tag B of the second line is found.
C1_Witness ==
  /\ pc = "done"
  /\ text = <<"x", " ", "K", "=", "a", "\n", "B", "=", " ", "Y">>
  /\ DOMAIN ts = {Key_B}
  /\ ts[Key_B] = << <<" ", "Y">> >>

\* C2: occurrences of a key that differ only in letter case form one group
\* under the upper-cased key, holding all their values in source order:
\* every emitted key is upper-case, an array tag holds the whole group and
\* any other key is typed from the last value of the group.
C2_CaseGrouping ==
  (pc = "done" /\ err = <<>>) =>
    /\ DOMAIN tagStrs = ExpectedKeys(text, cfg)
    /\ \A key \in DOMAIN tagStrs :
         /\ key = ToUpper(key)
         /\ tagStrs[key] =
              IF IsArrayTag(cfg, key)
              THEN SliceValue(UpperGroup(text, key))
              ELSE ScalarFrom(cfg, key, Last(UpperGroup(text, key)))

\* C3: the typed value of a selected array tag is the complete sequence of
\* the values seen for the key, in the order of the text.
C3_ArrayComplete ==
  (pc = "done" /\ err = <<>>) =>
    \A key \in DOMAIN tagStrs :
      IsArrayTag(cfg, key) =>
        tagStrs[key] = SliceValue(UpperGroup(text, key))

\* C4: the typed value of a selected key that is not an array tag comes
\* from the last value of the key in source order only, and ParseTags fails
\* in the coercion only when the last value of a selected bool tag cannot be
\* coerced.
C4_LastWins ==
  pc = "done" =>
    /\ err = <<>> =>
         \A key \in DOMAIN tagStrs :
           ~IsArrayTag(cfg, key) =>
             tagStrs[key] = ScalarFrom(cfg, key, Last(UpperGroup(text, key)))
    /\ ProcessFailed =>
         \E key \in ExpectedKeys(text, cfg) :
           IsBoolTag(cfg, key) /\ ~Coercible(Last(UpperGroup(text, key)))

\* C5: when ParseTags succeeds, the keys of the output are the found keys
\* (upper-cased) if OutputAll is set, and otherwise the found keys that are
\* in ArrayTags, StringTags or BoolTags; no other key is ever in the output,
\* in particular no configured key that the text does not hold.
C5_Selection ==
  pc = "done" =>
    /\ OutputKeys \subseteq ExpectedKeys(text, cfg)
    /\ err = <<>> => OutputKeys = ExpectedKeys(text, cfg)

\* A found key that is in no list is dropped next to one that is kept.
C5_Witness ==
  /\ pc = "done"
  /\ err = <<>>
  /\ ~cfg.OutputAll
  /\ cfg.Format = FormatJSON
  /\ Key_K \in { ToUpper(k) : k \in FoundKeys(text) }
  /\ OutputKeys = {Key_B}

NoTagsDeclared ==
  ~cfg.OutputAll /\ cfg.ArrayTags = <<>> /\ cfg.StringTags = <<>>
    /\ cfg.BoolTags = <<>>

\* C6 as stated: with OutputAll=false and no declared tag the output is the
\* empty string for the formats raw and json.
C6_EmptyOutput_Original ==
  (pc = "done" /\ NoTagsDeclared /\ cfg.Format \in {FormatRaw, FormatJSON})
    => r = <<>>

\* C6 amended: with OutputAll=false and no declared tag ParseTags succeeds
\* and its output holds no tag for every text: the empty string for the
\* format raw, the empty JSON object {} for the format json.
C6_EmptyOutput ==
  (pc = "done" /\ NoTagsDeclared /\ cfg.Format \in {FormatRaw, FormatJSON})
    => /\ err = <<>>
       /\ OutputKeys = {}
       /\ r = IF cfg.Format = FormatRaw THEN <<>> ELSE <<"{", "}">>

\* A text with tags, nothing declared, format json: the output is {}.
C6_Witness ==
  /\ pc = "done"
  /\ NoTagsDeclared
  /\ cfg.Format = FormatJSON
  /\ DOMAIN ts # {}
  /\ r = <<"{", "}">>

\* The key the loop of ParseTags visits in this step.
Visited == CHOOSE k \in todo : k \notin todo'

\* The text `B=` w under BoolTags = [B], format raw, gives the line B=b.
BoolLine(w, b) ==
  (/\ pc = "done"
   /\ text = <<"B", "=">> \o w
   /\ cfg = MkConfig(<<>>, <<>>, <<Key_B>>, FALSE, FormatRaw, FALSE))
    => (err = <<>> /\ r = <<"B", "=">> \o FormatBool(b) \o <<"\n">>)

\* C7: each time the loop types a selected bool tag, the last value of the
\* visited group, trimmed and in any letter case, gives true exactly for
\* 1, t, true, yes, y, false exactly for 0, f, false, no, n, and any other
\* value makes ParseTags fail; yes,0,FALSE,True,t,y,n,no give
\* true,false,false,true,true,true,false,false.
C7_BoolTable ==
  /\ [](/\ BoolLine(Chars_yes, TRUE)
        /\ BoolLine(<<"0">>, FALSE)
        /\ BoolLine(<<"F", "A", "L", "S", "E">>, FALSE)
        /\ BoolLine(<<"T", "r", "u", "e">>, TRUE)
        /\ BoolLine(<<"t">>, TRUE)
        /\ BoolLine(Chars_y, TRUE)
        /\ BoolLine(Chars_n, FALSE)
        /\ BoolLine(Chars_no, FALSE))
  /\ [][(/\ pc = "range"
         /\ todo' # todo
         /\ Selected(cfg, Visited)
         /\ IsBoolTag(cfg, ToUpper(Visited)))
        => LET key  == ToUpper(Visited)
               last == Last(ts[Visited])
           IN /\ IsTrueWord(last) =>
                   (/\ pc' = "range"
                    /\ key \in DOMAIN tagStrs'
                    /\ tagStrs'[key] = BoolValue(TRUE))
              /\ IsFalseWord(last) =>
                   (/\ pc' = "range"
                    /\ key \in DOMAIN tagStrs'
                    /\ tagStrs'[key] = BoolValue(FALSE))
              /\ ~Coercible(last) => (pc' = "done" /\ err' # <<>>)]_vars

\* The value ` YeS` with a tab after it is coerced to true.
C7_Witness ==
  /\ pc = "done"
  /\ text = <<"B", "=", " ", "Y", "e", "S", "\t">>
  /\ cfg.Format = FormatRaw
  /\ r = <<"B", "=", "t", "r", "u", "e", "\n">>

\* C8: ParseTags returns the full serialized string and no error, or an
\* error and the empty string, never an error with a non-empty string.
C8_AllOrNothing ==
  pc = "done" =>
    /\ err # <<>> => r = <<>>
    /\ err = <<>> => OutputKeys = DOMAIN tagStrs

\* A bool tag fails after another key was typed: nothing is returned.
C8_Witness ==
  /\ pc = "done"
  /\ ProcessFailed
  /\ DOMAIN tagStrs # {}
  /\ r = <<>>

\* C9: the error of a boolean coercion failure names the offending key and
\* the offending value as it appears in the text.
C9_ErrorNamesKeyAndValue ==
  (pc = "done" /\ ProcessFailed) =>
    \E k \in DOMAIN ts :
      /\ Selected(cfg, k)
      /\ IsBoolTag(cfg, ToUpper(k))
      /\ ~Coercible(Last(ts[k]))
      /\ Occurs(ToUpper(k), err)
      /\ Occurs(Last(ts[k]), err)

\* The value the raw format shows for a typed value that is not an array.
ShownAs(v, shown) ==
  \/ v.kind = "string" /\ shown = v.s
  \/ v.kind = "bool" /\ shown = (IF v.b THEN Chars_true ELSE Chars_false)
  \/ v.kind = "slice"

\* C10: a successful raw output is one line KEY=value, ended by "\n", per
\* selected key, the keys in ascending order; a boolean is shown as true or
\* false, a string or untyped value as the last value of its group,
\* character for character; without a selected key the output is empty.
C10_RawFormat ==
  (pc = "done" /\ err = <<>> /\ cfg.Format = FormatRaw) =>
    LET ls == RawLines(r) IN
    /\ r = <<>> <=> ExpectedKeys(text, cfg) = {}
    /\ r # <<>> => r[Len(r)] = "\n"
    /\ Len(ls) = Cardinality(ExpectedKeys(text, cfg))
    /\ \A i \in 1..Len(ls) :
         /\ KeyOfRawLine(ls[i]) \in ExpectedKeys(text, cfg)
         /\ i > 1 => StrLess(KeyOfRawLine(ls[i - 1]), KeyOfRawLine(ls[i]))
         /\ LET key   == KeyOfRawLine(ls[i])
                shown == SubSeq(ls[i], Len(key) + 2, Len(ls[i]))
            IN /\ ShownAs(tagStrs[key], shown)
               /\ ~IsArrayTag(cfg, key) =>
                    \E k \in DOMAIN ts :
                      /\ ToUpper(k) = key
                      /\ ScalarFrom(cfg, key, Last(ts[k])) = tagStrs[key]

\* A boolean and a string in one raw output, the keys in ascending order.
C10_Witness ==
  /\ pc = "done"
  /\ err = <<>>
  /\ cfg.Format = FormatRaw
  /\ r = <<"B", "=", "t", "r", "u", "e", "\n", "K", "=", "n", "\n">>

----------------------------------------------------------------------------
(* The output read back, independently of the serializers                  *)

\* The byte value of a key character.
AsciiOf(c) ==
  IF \E i \in 1..10 : DigitChars[i] = c
  THEN 47 + (CHOOSE i \in 1..10 : DigitChars[i] = c)
  ELSE IF \E i \in 1..26 : UpperAlpha[i] = c
  THEN 64 + (CHOOSE i \in 1..26 : UpperAlpha[i] = c)
  ELSE IF c = "_" THEN 95
  ELSE 96 + (CHOOSE i \in 1..26 : LowerAlpha[i] = c)

\* a comes strictly before b in the lexical order that ignores letter case:
\* the two keys are compared in upper case, byte by byte.
KeyBefore(a, b) ==
  LET x == ToUpper(a)
      y == ToUpper(b)
  IN \E i \in 1..Len(y) :
       /\ i - 1 <= Len(x)
       /\ \A n \in 1..(i - 1) : x[n] = y[n]
       /\ (i > Len(x) \/ AsciiOf(x[i]) < AsciiOf(y[i]))

\* The first position >= i of out that holds no JSON white space.
RECURSIVE JsonWs(_, _)
JsonWs(out, i) ==
  IF i <= Len(out) /\ out[i] \in {" ", "\n", "\t", "\r"}
  THEN JsonWs(out, i + 1)
  ELSE i

\* The character the escape sequence at position i stands for, and the
\* length of the sequence.
JsonUnescape(out, i) ==
  LET c == IF i < Len(out) THEN out[i + 1] ELSE ""
  IN IF c = "n" THEN [c |-> "\n", n |-> 2]
     ELSE IF c = "r" THEN [c |-> "\r", n |-> 2]
     ELSE IF c = "t" THEN [c |-> "\t", n |-> 2]
     ELSE IF c = "u" /\ i + 5 <= Len(out)
     THEN LET h == SubSeq(out, i + 2, i + 5)
          IN [c |-> IF h = <<"0", "0", "3", "c">> THEN "<"
                    ELSE IF h = <<"0", "0", "3", "e">> THEN ">"
                    ELSE IF h = <<"0", "0", "2", "6">> THEN "&"
                    ELSE "?",
              n |-> 6]
     ELSE [c |-> c, n |-> 2]

\* The JSON string whose first character is at position j, after the
\* opening quote.
RECURSIVE JsonChars(_, _, _)
JsonChars(out, j, acc) ==
  IF j > Len(out) \/ out[j] \in {"\n", "\r", "\t"}
  THEN [ok |-> FALSE, s |-> acc, next |-> j]
  ELSE IF out[j] = "\"" THEN [ok |-> TRUE, s |-> acc, next |-> j + 1]
  ELSE IF out[j] = "\\"
  THEN LET u == JsonUnescape(out, j)
       IN JsonChars(out, j + u.n, Append(acc, u.c))
  ELSE JsonChars(out, j + 1, Append(acc, out[j]))

JsonBad(out) == [ok |-> FALSE, val |-> NilValue, next |-> Len(out) + 1]

HasAt(out, i, w) ==
  i + Len(w) - 1 <= Len(out) /\ SubSeq(out, i, i + Len(w) - 1) = w

\* The elements of a JSON array of strings; an element is expected at i.
RECURSIVE JsonArray(_, _, _)
JsonArray(out, i, acc) ==
  LET j == JsonWs(out, i)
  IN IF j > Len(out) \/ out[j] # "\"" THEN JsonBad(out)
     ELSE LET e == JsonChars(out, j + 1, <<>>)
              n == JsonWs(out, e.next)
          IN IF ~e.ok \/ n > Len(out) THEN JsonBad(out)
             ELSE IF out[n] = ","
             THEN JsonArray(out, n + 1, Append(acc, e.s))
             ELSE IF out[n] = "]"
             THEN [ok |-> TRUE, val |-> SliceValue(Append(acc, e.s)),
                   next |-> n + 1]
             ELSE JsonBad(out)

\* The JSON value at position i: a boolean, a string or an array of strings.
JsonVal(out, i) ==
  IF HasAt(out, i, Chars_true)
  THEN [ok |-> TRUE, val |-> BoolValue(TRUE), next |-> i + 4]
  ELSE IF HasAt(out, i, Chars_false)
  THEN [ok |-> TRUE, val |-> BoolValue(FALSE), next |-> i + 5]
  ELSE IF HasAt(out, i, <<"\"">>)
  THEN LET e == JsonChars(out, i + 1, <<>>)
       IN [ok |-> e.ok, val |-> StringValue(e.s), next |-> e.next]
  ELSE IF HasAt(out, i, <<"[">>)
  THEN LET j == JsonWs(out, i + 1)
       IN IF HasAt(out, j, <<"]">>)
          THEN [ok |-> TRUE, val |-> SliceValue(<<>>), next |-> j + 1]
          ELSE JsonArray(out, i + 1, <<>>)
  ELSE JsonBad(out)

\* The members of a JSON object, in the order of the text; a member is
\* expected at i.
RECURSIVE JsonObject(_, _, _)
JsonObject(out, i, acc) ==
  LET j == JsonWs(out, i)
  IN IF ~HasAt(out, j, <<"\"">>) THEN [ok |-> FALSE, members |-> acc]
     ELSE LET k == JsonChars(out, j + 1, <<>>)
              c == JsonWs(out, k.next)
          IN IF ~k.ok \/ ~HasAt(out, c, <<":">>)
             THEN [ok |-> FALSE, members |-> acc]
             ELSE LET v  == JsonVal(out, JsonWs(out, c + 1))
                      n  == JsonWs(out, v.next)
                      ms == Append(acc, [key |-> k.s, val |-> v.val])
                  IN IF ~v.ok THEN [ok |-> FALSE, members |-> acc]
                     ELSE IF HasAt(out, n, <<",">>)
                     THEN JsonObject(out, n + 1, ms)
                     ELSE [ok |-> HasAt(out, n, <<"}">>)
                                    /\ JsonWs(out, n + 1) > Len(out),
                           members |-> ms]

\* The text out read as one JSON object.
JsonDecode(out) ==
  LET i == JsonWs(out, 1)
      j == JsonWs(out, i + 1)
  IN IF ~HasAt(out, i, <<"{">>) THEN [ok |-> FALSE, members |-> <<>>]
     ELSE IF HasAt(out, j, <<"}">>)
     THEN [ok |-> JsonWs(out, j + 1) > Len(out), members |-> <<>>]
     ELSE JsonObject(out, i + 1, <<>>)

\* The keys of the output of ParseTags, in the order they appear in.
OutputKeySeq ==
  IF cfg.Format = FormatRaw
  THEN [i \in 1..Len(RawLines(r)) |-> KeyOfRawLine(RawLines(r)[i])]
  ELSE IF cfg.Format = FormatJSON
  THEN [i \in 1..Len(JsonDecode(r).members) |-> JsonDecode(r).members[i].key]
  ELSE <<>>

\* What the raw output shows after "KEY=" on the line of the key.
RawValueOf(out, key) ==
  LET l == CHOOSE x \in Range(RawLines(out)) : KeyOfRawLine(x) = key
  IN SubSeq(l, Len(key) + 2, Len(l))

\* The element e with every comma replaced by backslash-comma.
EscapedElement(e) == Join(SplitOn(e, ","), <<"\\", ",">>)

\* The elements of a, commas escaped, joined by one comma each.
RenderedArray(a) ==
  Join([i \in 1..Len(a) |-> EscapedElement(a[i])], <<",">>)

\* The pieces of s between the commas that no backslash precedes, with
\* backslash-comma read as a comma.
RECURSIVE SplitUnescaped(_, _, _)
SplitUnescaped(s, i, cur) ==
  IF i > Len(s) THEN <<cur>>
  ELSE IF s[i] = "\\" /\ i < Len(s) /\ s[i + 1] = ","
  THEN SplitUnescaped(s, i + 2, Append(cur, ","))
  ELSE IF s[i] = "," THEN <<cur>> \o SplitUnescaped(s, i + 1, <<>>)
  ELSE SplitUnescaped(s, i + 1, Append(cur, s[i]))

\* The values, in source order, of the occurrences of one spelling of the
\* key in the text: the groups the typed value of the key can come from.
GroupsOf(v, key) ==
  { ValuesOf(TagsOfText(v), {k}) :
      k \in { x \in FoundKeys(v) : ToUpper(x) = key } }

----------------------------------------------------------------------------
(* Claims on the serialized output                                         *)

C12_RawArray ==
  (pc = "done" /\ err = <<>> /\ cfg.Format = FormatRaw) =>
    \A key \in DOMAIN tagStrs :
      IsArrayTag(cfg, key) =>
        /\ tagStrs[key].kind = "slice"
        /\ tagStrs[key].a \in GroupsOf(text, key)
        /\ RawValueOf(r, key) = RenderedArray(tagStrs[key].a)

\* The values "some value, ok" and "another value, yes" of the array tag
\* TAG_1 are shown as `some value\, ok,another value\, yes`.
C12_Witness ==
  /\ pc = "done"
  /\ cfg.Format = FormatRaw
  /\ Key_TAG_1 \in DOMAIN ts
  /\ ts[Key_TAG_1] = <<Chars_some_value_ok, Chars_another_value_yes>>
  /\ r = Key_TAG_1 \o <<"=">>
           \o <<"s","o","m","e"," ","v","a","l","u","e","\\",","," ","o","k">>
           \o <<",">>
           \o <<"a","n","o","t","h","e","r"," ","v","a","l","u","e","\\",",",
                " ","y","e","s">>
           \o <<"\n">>

\* C13: splitting the raw rendering of an array tag on the commas that no
\* backslash precedes, and reading backslash-comma as a comma in each piece,
\* gives back the elements of the array.
C13_CommaRoundTrip ==
  (pc = "done" /\ err = <<>> /\ cfg.Format = FormatRaw) =>
    \A key \in DOMAIN tagStrs :
      IsArrayTag(cfg, key) =>
        SplitUnescaped(RawValueOf(r, key), 1, <<>>) = tagStrs[key].a

\* C14: a successful JSON output is one JSON object with one member per
\* selected key: a JSON boolean for a bool tag, a JSON array of the values
\* of the key in the order of the text, commas as they are, for an array
\* tag, and a JSON string of the last value for any other key.
C14_JsonFormat ==
  (pc = "done" /\ err = <<>> /\ cfg.Format = FormatJSON) =>
    LET d == JsonDecode(r)
    IN /\ d.ok
       /\ Len(d.members) = Cardinality(ExpectedKeys(text, cfg))
       /\ { m.key : m \in Range(d.members) } = ExpectedKeys(text, cfg)
       /\ \A m \in Range(d.members) :
            \E g \in GroupsOf(text, m.key) :
              m.val = IF IsArrayTag(cfg, m.key) THEN SliceValue(g)
                      ELSE ScalarFrom(cfg, m.key, Last(g))

\* The array tag K with the values "a,b" and "c" is {"K":["a,b","c"]}.
C14_Witness ==
  /\ pc = "done"
  /\ err = <<>>
  /\ cfg.Format = FormatJSON
  /\ ~cfg.PrettyPrint
  /\ r = <<"{", "\"", "K", "\"", ":", "[", "\"", "a", ",", "b", "\"", ",",
           "\"", "c", "\"", "]", "}">>
  /\ JsonDecode(r).members =
       << [key |-> Key_K, val |-> SliceValue(<< <<"a", ",", "b">>, <<"c">> >>)] >>

\* C17: every value parseTags returns stands in the text right after the
\* first "=" of a line that begins with the key, and ends where the text
\* ends or before the first line feed or carriage return that follows: it
\* holds no line feed and no carriage return, it keeps further "=" signs
\* and spaces, and it may be empty, in which case the raw output shows the
\* key as `KEY=`.
C17_ValueExtent ==
  pc # "start" =>
    /\ \A k \in DOMAIN ts : \A n \in 1..Len(ts[k]) :
         LET val == ts[k][n]
         IN /\ \A i \in 1..Len(val) : val[i] \notin {"\n", "\r"}
            /\ \E i \in 1..Len(text) :
                 LET e == i + Len(k) + 1 + Len(val)
                 IN /\ (i = 1 \/ text[i - 1] = "\n")
                    /\ HasAt(text, i, k \o <<"=">> \o val)
                    /\ (e > Len(text) \/ text[e] \in {"\n", "\r"})
    /\ (pc = "done" /\ err = <<>> /\ cfg.Format = FormatRaw) =>
         \A key \in DOMAIN tagStrs :
           tagStrs[key] = StringValue(<<>>) =>
             (key \o <<"=">>) \in Range(RawLines(r))

\* The text `K= a=b ` / `K=`: the first value keeps its spaces and its "=",
\* the second is empty and is shown as `K=`.
C17_Witness ==
  /\ pc = "done"
  /\ err = <<>>
  /\ text = <<"K", "=", " ", "a", "=", "b", " ", "\n", "K", "=">>
  /\ ts[Key_K] = << <<" ", "a", "=", "b", " ">>, <<>> >>
  /\ r = <<"K", "=", "\n">>

\* ParseTags returned the error of the serializer for a Format it does not
\* know.
InvalidFormatError ==
  \/ err = <<"failed to format tags: ", "unknown error formatting tags">>
  \/ err = <<"failed to format tags: ", "format '", cfg.Format,
             "' is invalid">>

\* C16: with a Format other than raw and json, the empty string included,
\* ParseTags fails with the invalid-format error for every text, also when
\* the text holds a selected bool tag whose value cannot be coerced.
C16_InvalidFormatFirst ==
  (pc = "done" /\ cfg.Format \notin {FormatRaw, FormatJSON}) =>
    InvalidFormatError

\* The JSON text out without the white space outside its strings.
RECURSIVE StripLayout(_, _, _)
StripLayout(out, i, inStr) ==
  IF i > Len(out) THEN <<>>
  ELSE IF inStr
  THEN IF out[i] = "\\" /\ i < Len(out)
       THEN <<out[i], out[i + 1]>> \o StripLayout(out, i + 2, TRUE)
       ELSE <<out[i]>> \o StripLayout(out, i + 1, out[i] # "\"")
  ELSE IF out[i] \in {" ", "\n", "\t", "\r"}
  THEN StripLayout(out, i + 1, FALSE)
  ELSE <<out[i]>> \o StripLayout(out, i + 1, out[i] = "\"")

\* The first position >= i of out that holds no space.
RECURSIVE AfterSpaces(_, _)
AfterSpaces(out, i) ==
  IF i <= Len(out) /\ out[i] = " " THEN AfterSpaces(out, i + 1) ELSE i

\* The JSON text out, read from position i at nesting depth d, is laid out
\* on several lines: a new line after every opening bracket of a non-empty
\* object or array and after every comma, each new line indented by two
\* spaces per nesting level, and no other white space than one space after
\* a colon.
RECURSIVE PrettyLayout(_, _, _, _)
PrettyLayout(out, i, d, inStr) ==
  IF i > Len(out) THEN d = 0
  ELSE IF inStr
  THEN IF out[i] = "\\" THEN PrettyLayout(out, i + 2, d, TRUE)
       ELSE PrettyLayout(out, i + 1, d, out[i] # "\"")
  ELSE IF out[i] = "\n"
  THEN LET j == AfterSpaces(out, i + 1)
           closing == HasAt(out, j, <<"}">>) \/ HasAt(out, j, <<"]">>)
       IN /\ j <= Len(out)
          /\ j - (i + 1) = 2 * (IF closing THEN d - 1 ELSE d)
          /\ PrettyLayout(out, j, d, FALSE)
  ELSE IF out[i] = " "
  THEN i > 1 /\ out[i - 1] = ":" /\ PrettyLayout(out, i + 1, d, FALSE)
  ELSE IF out[i] = "{"
  THEN /\ HasAt(out, i + 1, <<"}">>) \/ HasAt(out, i + 1, <<"\n">>)
       /\ PrettyLayout(out, i + 1, d + 1, FALSE)
  ELSE IF out[i] = "["
  THEN /\ HasAt(out, i + 1, <<"]">>) \/ HasAt(out, i + 1, <<"\n">>)
       /\ PrettyLayout(out, i + 1, d + 1, FALSE)
  ELSE IF out[i] \in {"}", "]"} THEN PrettyLayout(out, i + 1, d - 1, FALSE)
  ELSE IF out[i] = ","
  THEN HasAt(out, i + 1, <<"\n">>) /\ PrettyLayout(out, i + 1, d, FALSE)
  ELSE PrettyLayout(out, i + 1, d, out[i] = "\"")

\* The Config c with PrettyPrint the other way round.
FlipPretty(c) == [c EXCEPT !.PrettyPrint = ~c.PrettyPrint]

\* No key of the text is written in two letter cases.
OneSpelling(v) ==
  \A a, b \in FoundKeys(v) : ToUpper(a) = ToUpper(b) => a = b

\* C15: what ParseTags returns with the format raw, it can return with
\* PrettyPrint the other way round, and the other way about; for a text
\* whose keys are written in one letter case each, that is one string.  With
\* the format json the return with PrettyPrint the other way round holds
\* the same JSON text but for the white space outside the strings; that of
\* PrettyPrint is laid out on several lines with two spaces per level, the
\* other is one line without white space outside the strings.
C15_PrettyPrint ==
  pc = "done" =>
    LET others == ParseTagsOutcomes(text, FlipPretty(cfg))
    IN /\ cfg.Format = FormatRaw =>
            /\ [r |-> r, err |-> err] \in others
            /\ others = ParseTagsOutcomes(text, cfg)
            /\ OneSpelling(text) => { o.r : o \in others } = {r}
       /\ cfg.Format = FormatJSON =>
            /\ \E o \in others :
                 /\ o.err = err
                 /\ StripLayout(o.r, 1, FALSE) = StripLayout(r, 1, FALSE)
                 /\ JsonDecode(o.r) = JsonDecode(r)
            /\ err = <<>> =>
                 IF cfg.PrettyPrint
                 THEN /\ PrettyLayout(r, 1, 0, FALSE)
                      /\ (DOMAIN tagStrs # {}) => "\n" \in Range(r)
                 ELSE /\ r = StripLayout(r, 1, FALSE)
                      /\ "\n" \notin Range(r)

\* A raw output of an array tag returned with PrettyPrint set.
C15_Witness ==
  /\ pc = "done"
  /\ cfg.Format = FormatRaw
  /\ cfg.PrettyPrint
  /\ r = <<"B", "=", "t", "r", "u", "e", "\n", "K", "=", "a", ",", "n", "\n">>
  /\ [r |-> r, err |-> <<>>] \in ParseTagsOutcomes(text, FlipPretty(cfg))

\* C18: every call of format on one map with one Config returns what the
\* first call returned, string and error, for the formats raw and json, and
\* no call changes the map.
C18_FormatIdempotent ==
  /\ [](\A i \in 1..Len(outs) : outs[i] = outs[1])
  /\ [][tagStrs' = tagStrs /\ cfg' = cfg]_vars

\* format was called twice on a map of three keys with the format raw.
C18_Witness ==
  /\ pc = "format"
  /\ Len(outs) = 2
  /\ cfg.Format = FormatRaw
  /\ DOMAIN tagStrs = FormatKeys
  /\ outs[2].r # <<>>
  /\ outs[2].err = <<>>

\* C19: when two ParseTags calls on one TagParser run interleaved, each
\* returns a string and an error that the call returns on its own text when
\* it runs alone, and no step of either call changes the Config.
C19_ConcurrentUse ==
  /\ [](pc = "done" =>
          [r |-> r, err |-> err] \in ParseTagsOutcomes(text, cfg))
  /\ [](other.pc = "done" =>
          [r |-> other.r, err |-> other.err]
            \in ParseTagsOutcomes(other.text, cfg))
  /\ [][cfg' = cfg]_vars

\* Both calls have returned an output, each of its own text.
C19_Witness ==
  /\ pc = "done"
  /\ other.pc = "done"
  /\ text = <<"B", "=", "n">>
  /\ other.text = <<"K", "=", "a", "\n", "B", "=", "y">>
  /\ cfg.Format = FormatRaw
  /\ r = <<"B", "=", "f", "a", "l", "s", "e", "\n">>
  /\ other.r = <<"B", "=", "t", "r", "u", "e", "\n", "K", "=", "a", "\n">>

\* C20: Process has called no operation of the platform before its switch;
\* after it, the log of the platform holds exactly one call, GetRequestBody
\* for the type request and GetIssueBody for the type issue, the body
\* ParseTags gets is the response of that call, and for any other type the
\* log is empty and Process has returned an error without any output.
C20_PlatformCalledOnce ==
  /\ cmd.pc = "switch" => cmd.Reqs = <<>>
  /\ cmd.pc \in {"parse", "return"} =>
       /\ cmd.FlagType = TypeRequest => cmd.Reqs = <<"GetRequestBody">>
       /\ cmd.FlagType = TypeIssue => cmd.Reqs = <<"GetIssueBody">>
       /\ cmd.FlagType \notin {TypeRequest, TypeIssue} =>
            /\ cmd.Reqs = <<>>
            /\ cmd.pc = "return"
            /\ cmd.merr # <<>>
            /\ cmd.stdout = <<>>
  /\ cmd.pc = "parse" =>
       text = IF cmd.FlagType = TypeRequest THEN cmd.GetRequestBodyResponse
              ELSE cmd.GetIssueBodyResponse

\* Process of the type issue has printed the tags of the issue body after
\* one call of GetIssueBody.
C20_Witness ==
  /\ cmd.pc = "return"
  /\ cmd.FlagType = TypeIssue
  /\ cmd.Reqs = <<"GetIssueBody">>
  /\ cmd.GetRequestBodyResponse # cmd.GetIssueBodyResponse
  /\ cmd.GetIssueBodyResponse = <<"B", "=", "n">>
  /\ cmd.stdout = << r >>
  /\ r # <<>>
  /\ cmd.merr = <<>>

----------------------------------------------------------------------------
(* Claims on the typed lists, the diagnostic and determinism               *)

\* C21: a selected key of ArrayTags is typed as the array of its values
\* also when BoolTags or StringTags hold it; a selected key of StringTags
\* that is not in ArrayTags is typed as its last value, verbatim, also when
\* BoolTags holds it; and ParseTags fails in the coercion only for a key of
\* BoolTags that is in neither of the other two lists.
C21_Precedence ==
  pc = "done" =>
    /\ err = <<>> =>
         \A key \in DOMAIN tagStrs :
           /\ Contains(cfg.ArrayTags, key) =>
                /\ tagStrs[key].kind = "slice"
                /\ tagStrs[key].a \in GroupsOf(text, key)
           /\ (Contains(cfg.StringTags, key)
                 /\ ~Contains(cfg.ArrayTags, key)) =>
                /\ tagStrs[key].kind = "string"
                /\ \E g \in GroupsOf(text, key) : tagStrs[key].s = Last(g)
    /\ ProcessFailed =>
         \E key \in ExpectedKeys(text, cfg) :
           /\ Contains(cfg.BoolTags, key)
           /\ ~Contains(cfg.ArrayTags, key)
           /\ ~Contains(cfg.StringTags, key)
           /\ \E g \in GroupsOf(text, key) : ~Coercible(Last(g))

\* K is in ArrayTags and in BoolTags and has the uncoercible value a: the
\* call succeeds with the array [a].
C21_Witness ==
  /\ pc = "done"
  /\ err = <<>>
  /\ text = <<"K", "=", "a">>
  /\ Contains(cfg.ArrayTags, Key_K)
  /\ Contains(cfg.BoolTags, Key_K)
  /\ tagStrs[Key_K] = SliceValue(<< <<"a">> >>)

\* A configured name with a lower-case letter.
HasLower(name) == \E i \in 1..Len(name) : name[i] \in Range(LowerAlpha)

\* The Config c without the configured names that hold a lower-case letter.
OnlyUpperNames(c) ==
  [c EXCEPT !.ArrayTags = SelectSeq(@, LAMBDA n : ~HasLower(n)),
            !.StringTags = SelectSeq(@, LAMBDA n : ~HasLower(n)),
            !.BoolTags = SelectSeq(@, LAMBDA n : ~HasLower(n))]

\* C22: a configured name with a lower-case letter has no effect: ParseTags
\* returns what it can return without that name in the lists, and every
\* key it selects without OutputAll, types as an array or coerces to a
\* boolean is, character for character, a name of the list in question.
C22_CaseSensitiveNames ==
  pc = "done" =>
    /\ [r |-> r, err |-> err] \in ParseTagsOutcomes(text, OnlyUpperNames(cfg))
    /\ \A key \in DOMAIN tagStrs :
         /\ ~HasLower(key)
         /\ cfg.OutputAll \/ InAnyList(cfg, key)
         /\ tagStrs[key].kind = "slice" => Contains(cfg.ArrayTags, key)
         /\ tagStrs[key].kind = "bool" => Contains(cfg.BoolTags, key)

\* ArrayTags holds the name k only: neither k=b nor K=a is selected.
C22_Witness ==
  /\ pc = "done"
  /\ err = <<>>
  /\ cfg.ArrayTags = <<Key_k>>
  /\ ~cfg.OutputAll
  /\ text = <<"k", "=", "b", "\n", "K", "=", "a">>
  /\ tagStrs = EmptyMap
  /\ r = <<>>

\* The selected keys that are no array tag and have more than one value.
DuplicateKeys(v, c) ==
  { key \in ExpectedKeys(v, c) :
      ~IsArrayTag(c, key) /\ Len(UpperGroup(v, key)) > 1 }

\* C23: the duplicate-key diagnostic is logged only for a selected key that
\* is no array tag and has more than one value, and for every such key when
\* ParseTags succeeds; it never makes ParseTags fail: a failure in the
\* coercion comes from an uncoercible value of a bool tag.
C23_DuplicateDiagnostic ==
  /\ warned \subseteq DuplicateKeys(text, cfg)
  /\ (pc = "done" /\ err = <<>>) => warned = DuplicateKeys(text, cfg)
  /\ (pc = "done" /\ ProcessFailed) =>
       \E key \in ExpectedKeys(text, cfg) :
         /\ IsBoolTag(cfg, key)
         /\ \E g \in GroupsOf(text, key) : ~Coercible(Last(g))

\* C27: ParseTags is a function of the text and the Config: the string it
\* returned, and whether it returned an error, are the only ones it can
\* return for them.
C27_Deterministic ==
  pc = "done" =>
    { [r |-> o.r, failed |-> o.err # <<>>] :
        o \in ParseTagsOutcomes(text, cfg) }
      = { [r |-> r, failed |-> err # <<>>] }

\* The text holds a line that begins with "=".
HasEmptyKeyLine(v) ==
  \E i \in 1..Len(v) : v[i] = "=" /\ (i = 1 \/ v[i - 1] = "\n")

\* C28 as stated: no tag has the empty key, and no output shows one.
C28_NonEmptyKey ==
  /\ pc # "start" => <<>> \notin DOMAIN ts
  /\ (pc = "done" /\ err = <<>>) => <<>> \notin Range(OutputKeySeq)

\* C28, amended: the key of a tag may be empty: the text has a tag with the
\* empty key exactly when one of its lines begins with "=", and a
\* successful output shows that tag, as `=value` or as a member with the
\* empty name, exactly when the tag is there and OutputAll is set.
C28_EmptyKey ==
  /\ pc # "start" => (<<>> \in DOMAIN ts <=> HasEmptyKeyLine(text))
  /\ (pc = "done" /\ err = <<>>
        /\ cfg.Format \in {FormatRaw, FormatJSON}) =>
       (<<>> \in Range(OutputKeySeq)
          <=> (HasEmptyKeyLine(text) /\ cfg.OutputAll))

\* The text `=a` with OutputAll is shown as the raw line `=a`.
C28_Witness ==
  /\ pc = "done"
  /\ err = <<>>
  /\ text = <<"=", "a">>
  /\ ts[<<>>] = << <<"a">> >>
  /\ r = <<"=", "a", "\n">>

----------------------------------------------------------------------------
(* Claims on Process and on the platforms                                  *)

\* The error of the operation of the platform that the type selects.
FetchErr ==
  IF cmd.FlagType = TypeRequest THEN cmd.GetRequestBodyErr
  ELSE IF cmd.FlagType = TypeIssue THEN cmd.GetIssueBodyErr
  ELSE <<>>

\* C24: Process has written to standard output only when it has returned
\* nil after a fetch and a ParseTags call without error, and then it has
\* written what ParseTags returned, once; when the fetch failed, Process
\* has returned an error, ParseTags was never called and nothing is
\* written; when ParseTags failed, Process has returned an error and
\* nothing is written.
C24_OutputAfterSuccess ==
  /\ cmd.stdout # <<>> =>
       /\ cmd.pc = "return"
       /\ cmd.merr = <<>>
       /\ FetchErr = <<>>
       /\ pc = "done"
       /\ err = <<>>
       /\ cmd.stdout = <<r>>
  /\ (cmd.pc \in {"parse", "return"} /\ FetchErr # <<>>) =>
       /\ cmd.pc = "return"
       /\ cmd.merr # <<>>
       /\ pc = "idle"
       /\ cmd.stdout = <<>>
  /\ (cmd.pc = "return" /\ pc = "done" /\ err # <<>>) =>
       /\ cmd.merr # <<>>
       /\ cmd.stdout = <<>>
  /\ (cmd.pc = "return" /\ pc = "done" /\ err = <<>>) =>
       /\ cmd.merr = <<>>
       /\ cmd.stdout = <<r>>

\* The body was fetched, ParseTags failed on the bool tag B=x, and Process
\* returned the error without writing.
C24_Witness ==
  /\ cmd.pc = "return"
  /\ cmd.Reqs = <<"GetRequestBody">>
  /\ text = <<"B", "=", "x">>
  /\ pc = "done"
  /\ err # <<>>
  /\ cmd.merr = <<"failed to parse tags: ">> \o err
  /\ cmd.stdout = <<>>

\* The platform call has been entered.
Entered == plat.pc \in {"retry", "done"}

\* The attempts the fetch has made.
Attempts == Len(plat.calls)

\* The latest attempt succeeded, failed with the status s, or failed
\* without a response.
LastSucceeded == plat.last # <<>> /\ ~plat.last[1].err

LastStatusIn(S) ==
  /\ plat.last # <<>>
  /\ plat.last[1].err
  /\ plat.last[1].resp # <<>>
  /\ plat.last[1].resp[1].StatusCode \in S

LastNoResponse ==
  plat.last # <<>> /\ plat.last[1].err /\ plat.last[1].resp = <<>>

\* The status codes the platform does not retry, as the claim lists them.
NonRetryable == IF plat.kind = "github" THEN {403, 422} ELSE {403, 405, 422}

ReturnedError ==
  plat.pc = "done" /\ plat.result.kind = "return" /\ plat.result.err # <<>>

ReturnedBody(b) ==
  plat.pc = "done" /\ plat.result = [kind |-> "return", body |-> b,
                                     err |-> <<>>]

\* C25: a fetch makes at most MaxRetries+1 attempts, MaxRetries being 3
\* when it is not configured; a fetch that has ended without a successful
\* attempt has returned an error; after an attempt answered with a
\* non-retryable status the fetch has returned an error, and after a
\* successful attempt it has returned the body of that attempt; a fetch
\* goes on only after a failed attempt and within the budget.
C25_BoundedRetry ==
  plat.kind \in {"github", "gitlab"} =>
    /\ (plat.pc \in {"ready", "retry", "done"} /\ plat.flags.MaxRetries = 0)
         => plat.cfg.MaxRetries = 3
    /\ Entered => Attempts <= plat.cfg.MaxRetries + 1
    /\ (plat.pc = "done" /\ Attempts > 0 /\ ~LastSucceeded) => ReturnedError
    /\ LastStatusIn(NonRetryable) => ReturnedError
    /\ LastSucceeded =>
         ReturnedBody(IF plat.last[1].body = <<>> THEN ""
                      ELSE plat.last[1].body[1])
    /\ (plat.pc = "retry" /\ Attempts > 0) =>
         /\ plat.last[1].err
         /\ ~LastStatusIn(NonRetryable)
         /\ Attempts <= plat.cfg.MaxRetries

\* The pull request side and the issue side of a GitHub platform: the
\* number and body of the context, the body flag, the configured number
\* and body, the operation and the API it calls.
Sides ==
  { [N |-> plat.defaults.PullRequestNumber,
     B |-> plat.defaults.PullRequestBody,
     flag |-> plat.flags.PullRequestBody,
     number |-> plat.cfg.GitHubPullRequestNumber,
     body |-> plat.cfg.GitHubPullRequestBody,
     op |-> "GetRequestBody", api |-> "PullRequests.Get"],
    [N |-> plat.defaults.IssueNumber,
     B |-> plat.defaults.IssueBody,
     flag |-> plat.flags.IssueBody,
     number |-> plat.cfg.GitHubIssueNumber,
     body |-> plat.cfg.GitHubIssueBody,
     op |-> "GetIssueBody", api |-> "Issues.Get"] }

OpNumber ==
  IF plat.kind = "github"
  THEN IF plat.op = "GetIssueBody" THEN plat.cfg.GitHubIssueNumber
       ELSE plat.cfg.GitHubPullRequestNumber
  ELSE IF plat.op = "GetIssueBody" THEN plat.cfg.GitLabIssueIID
       ELSE plat.cfg.GitLabMergeRequestIID

OpBody ==
  IF plat.kind = "github"
  THEN IF plat.op = "GetIssueBody" THEN plat.cfg.GitHubIssueBody
       ELSE plat.cfg.GitHubPullRequestBody
  ELSE ""

\* C29: every call of the API passes a positive number; a GetIssueBody or
\* GetRequestBody whose number is not positive (and that has no configured
\* body to return) has returned an error without any call of the API, also
\* when the other number is set.
C29_PositiveNumber ==
  plat.kind \in {"github", "gitlab"} =>
    /\ \A i \in 1..Attempts : plat.calls[i].number > 0
    /\ (Entered /\ OpNumber <= 0 /\ OpBody = "") =>
         /\ ReturnedError
         /\ Attempts = 0

\* C30: no call ends in a panic, and an attempt that failed without a
\* response is retried while the budget lasts: after it the fetch goes on,
\* or it was the last attempt of the budget.
C30_NoCrash ==
  plat.kind \in {"github", "gitlab"} =>
    /\ plat.result.kind # "panic"
    /\ LastNoResponse =>
         \/ plat.pc = "retry"
         \/ ReturnedError /\ Attempts = plat.cfg.MaxRetries + 1

====
